---- MODULE Spec2Model ----
(***************************************************************************)
(* Model of the svchost discovery engine (package disco): the Disco type   *)
(* with its alias table, host cache, mutex and credentials source, and the *)
(* Discover / discover / CredentialsForHost call chains, step by step.     *)
(* Package svcauth is modelled beside it: the Credentials list and the     *)
(* caching credentials source, each under a specification of its own.      *)
(***************************************************************************)
EXTENDS Integers, Sequences, FiniteSets, TLC

\* ------------------------------------------------------------------ bounds
MaxCalls == 3          \* calls in a sequential run
MaxConcCalls == 3      \* calls in a concurrent run
MaxRequests == 2       \* HTTP requests in a run
MaxChain == 3          \* sources in a Credentials list
MaxAuthCalls == 3      \* calls on a svcauth value in a run
MaxHops == 4           \* redirects a server chain answers a request with

\* ------------------------------------------------------- program constants
discoPath == "/.well-known/terraform.json"
maxDiscoDocBytes == 1048576
maxRedirects == 3

\* --------------------------------------------------------------- universe
Procs == {"p1", "p2"}

\* Hostnames in comparison form.  "a" has no discovery endpoint (the
\* not-a-real-host of the alias test), "b" and "c" run a server.
Hosts == {"a", "b", "c"}
Reachable == {"b", "c"}

\* The kinds of run: one thread calling with any hostname, and two threads
\* calling concurrently with the hostnames a and b.  The per-hostname call
\* history, the entry snapshot and the response received are recorded in
\* sequential runs, the last cache writer in concurrent runs; a tracked run
\* is a concurrent run that also records, per hostname, the last forcing or
\* forgetting call and the number of requests sent before it.  In a callback
\* run the caller may also configure a credentials source whose ForHost calls
\* a method of the same Disco.
SeqRun == [procs |-> {"p1"}, hosts |-> Hosts, max |-> MaxCalls, seq |-> TRUE,
           track |-> FALSE, callback |-> FALSE]
ConcRun == [procs |-> Procs, hosts |-> {"a", "b"}, max |-> MaxConcCalls, seq |-> FALSE,
            track |-> FALSE, callback |-> FALSE]
TrackRun == [ConcRun EXCEPT !.track = TRUE]
CallbackRun == [SeqRun EXCEPT !.callback = TRUE]

\* svchost.Hostname.ForDisplay: the display form of a comparison-form name.
ForDisplay(h) == CASE h = "a" -> "A" [] h = "b" -> "B" [] h = "c" -> "C"

\* An empty Go map.
EmptyMap == [x \in {} |-> x]

\* A nil *Host, a nil error, a nil HostCredentials, a nil services map.
NilHost == [nil |-> TRUE]
NoErr == ""
NoCreds == ""
NilServices == "nil"

\* The services maps a caller hands to ForceHostServices.
ForcedServices == {"nil", "forcedA"}

\* svcauth.StaticCredentialsSource: the map of the configured source.
StaticCreds == [h \in Hosts |-> CASE h = "a" -> NoCreds
                                  [] h = "b" -> "tok_b"
                                  [] h = "c" -> "tok_c"]

\* The credentials sources a caller may configure: none (nil interface), a
\* static map, or a source whose ForHost returns an error.
SrcKinds == {"nil", "static", "failing"}

\* CredentialsSource.ForHost of the configured source.
SourceForHost(src, h) ==
    IF src = "static" THEN [creds |-> StaticCreds[h], err |-> NoErr]
    ELSE [creds |-> NoCreds, err |-> "source error"]

\* url.URL{Scheme: "https", Host: hostname, Path: discoPath}
DiscoURL(h) == [Scheme |-> "https", Host |-> h, Path |-> discoPath]

\* ----------------------------------------------------------- HTTP exchange
\* mime.ParseMediaType on the Content-Type values the servers send.
ContentTypes == {"application/json", "application/json; charset=utf-8",
                 "application/octet-stream", ""}
ParseMediaType(ct) ==
    CASE ct = "application/json" -> [mediaType |-> "application/json", err |-> NoErr]
      [] ct = "application/json; charset=utf-8" -> [mediaType |-> "application/json", err |-> NoErr]
      [] ct = "application/octet-stream" -> [mediaType |-> "application/octet-stream", err |-> NoErr]
      [] OTHER -> [mediaType |-> "", err |-> "mime: no media type"]

Min(x, y) == IF x < y THEN x ELSE y

\* A body is Len bytes long; its first DocLen bytes are one JSON text of the
\* given kind and the rest is trailing white space.
BodyLens == {2, maxDiscoDocBytes, maxDiscoDocBytes + 1}
BodyKinds == {"object", "null", "array", "malformed"}
Bodies == {b \in [Len : BodyLens, DocLen : BodyLens, Kind : BodyKinds] : b.DocLen <= b.Len}

\* json.Unmarshal(servicesBytes, &services) on the first n bytes of a body.
Unmarshal(body, n) ==
    IF body.DocLen > n THEN [services |-> NilServices, err |-> "unexpected end of JSON input"]
    ELSE CASE body.Kind = "object" -> [services |-> "served", err |-> NoErr]
           [] body.Kind = "null" -> [services |-> NilServices, err |-> NoErr]
           [] body.Kind = "array" -> [services |-> NilServices, err |-> "cannot unmarshal array"]
           [] OTHER -> [services |-> NilServices, err |-> "invalid character"]

\* What client.Do can produce for a request to host t: a transport error, or
\* a response whose Request.URL is the final URL after redirects.  The 200
\* responses vary one thing at a time around a small valid document: the
\* Content-Type, the document kind, the sizes, the redirect target.
TransportError == [transportErr |-> TRUE]
SmallObject == [Len |-> 2, DocLen |-> 2, Kind |-> "object"]
Response200(u, ct, cl, b) ==
    [transportErr |-> FALSE, StatusCode |-> 200, url |-> DiscoURL(u),
     ContentType |-> ct, ContentLength |-> cl, Body |-> b]
Responses(t) ==
    IF t \notin Reachable THEN {TransportError}
    ELSE {TransportError} \cup
         {[transportErr |-> FALSE, StatusCode |-> 404, url |-> DiscoURL(t)],
          [transportErr |-> FALSE, StatusCode |-> 500, url |-> DiscoURL(t)]} \cup
         {Response200(t, ct, 2, SmallObject) : ct \in ContentTypes} \cup
         {Response200(t, "application/json", 2, b) : b \in {x \in Bodies : x.Len = 2}} \cup
         {Response200(t, "application/json", b.Len, b) :
              b \in {x \in Bodies : x.Kind = "object"}} \cup
         {Response200(t, "application/json", -1, b) :
              b \in {x \in Bodies : x.Kind = "object"}} \cup
         {Response200("c", "application/json", 2, SmallObject)}

\* CheckRedirect refusing the redirect that reaches the limit.
CheckRedirect_AtLimit(via) ==
    IF via >= maxRedirects THEN "too many redirects" ELSE NoErr

\* New: the CheckRedirect of the default client, called with the requests
\* made so far (via is their number) before a redirect is followed.
CheckRedirect(via) ==
    IF via > maxRedirects THEN "too many redirects" ELSE NoErr

\* client.Do for a request to host t.  The servers answer with a chain of
\* redirects (none when the final URL is the requested one) that ends in one
\* of the responses above; before the client follows the i-th redirect it
\* calls CheckRedirect with the i requests made so far, and an error from it
\* ends the exchange with an error.  hops is the length of the chain.
Do(t) ==
    LET Hops(final) ==
            IF final.transportErr \/ final.url = DiscoURL(t) THEN {0} ELSE 1..MaxHops
        Followed(final, k) ==
            LET out == IF \E i \in 1..k : CheckRedirect(i) # NoErr
                       THEN TransportError ELSE final
            IN [f \in DOMAIN out \cup {"hops"} |-> IF f = "hops" THEN k ELSE out[f]]
    IN UNION {{Followed(final, k) : k \in Hops(final)} : final \in Responses(t)}

\* discover recording the URL it requested instead of resp.Request.URL.
HostDiscoURL_Requested(hostname, resp) == DiscoURL(hostname)

\* discover: host.discoURL is resp.Request.URL, the URL of the last request
\* the client made.
HostDiscoURL(hostname, resp) == resp.url

\* discover treating 404 like every other status that is not 200.
StatusOutcome_404Error(code) ==
    CASE code = 200 -> "content"
      [] OTHER -> "error"

\* discover: what the status code decides.  404 returns the Host without
\* services, 200 goes on to the content checks, anything else is an error.
StatusOutcome(code) ==
    CASE code = 404 -> "no services"
      [] code = 200 -> "content"
      [] OTHER -> "error"

\* discover comparing the whole header value with "application/json".
ContentTypeError_RawHeader(contentType) ==
    IF contentType = "" THEN "malformed Content-Type"
    ELSE IF contentType # "application/json" THEN "unsupported Content-Type"
    ELSE NoErr

\* discover: the Content-Type check; "" when the header is accepted.
ContentTypeError(contentType) ==
    LET mt == ParseMediaType(contentType) IN
    IF mt.err # NoErr THEN "malformed Content-Type"
    ELSE IF mt.mediaType # "application/json" THEN "unsupported Content-Type"
    ELSE NoErr

\* discover: the size check on the declared length, then the body read
\* through io.LimitReader(resp.Body, maxDiscoDocBytes) and unmarshalled.
ReadServices(resp) ==
    IF resp.ContentLength > maxDiscoDocBytes
    THEN [services |-> NilServices, err |-> "response is too large"]
    ELSE LET u == Unmarshal(resp.Body, Min(resp.Body.Len, maxDiscoDocBytes))
         IN IF u.err # NoErr
            THEN [services |-> NilServices, err |-> "failed to decode discovery document"]
            ELSE u

\* Disco.discover, from the response on: the Host or the error it returns.
DiscoverResult(hostname, resp, req) ==
    IF resp.transportErr
    THEN [host |-> NilHost, err |-> "ErrServiceDiscoveryNetworkRequest"]
    ELSE LET host == [discoURL |-> HostDiscoURL(hostname, resp),
                      hostname |-> ForDisplay(hostname),
                      services |-> NilServices, req |-> req]
             status == StatusOutcome(resp.StatusCode)
         IN IF status = "no services" THEN [host |-> host, err |-> NoErr]
            ELSE IF status = "error"
            THEN [host |-> NilHost, err |-> "failed to request discovery document"]
            ELSE IF ContentTypeError(resp.ContentType) # NoErr
            THEN [host |-> NilHost, err |-> ContentTypeError(resp.ContentType)]
            ELSE LET r == ReadServices(resp)
                 IN IF r.err # NoErr
                    THEN [host |-> NilHost, err |-> r.err]
                    ELSE [host |-> [host EXCEPT !.services = r.services],
                          err |-> NoErr]

\* ------------------------------------------------------------------ state
VARIABLES
    aliases,      \* Disco.aliases: a map, as a function on the aliased names
    hostCache,    \* Disco.hostCache: a map, as a function on the cached names
    mu,           \* Disco.mu: the thread holding it, or "free"
    credsSrc,     \* Disco.credsSrc
    pc,           \* where each thread is in its current call
    op,           \* the call each thread is running: name and hostname argument
    hostname,     \* the hostname local of discover
    credsHostname,\* the hostname parameter of CredentialsForHost
    creds,        \* the creds local of discover
    ret,          \* what the call returns
    requests,     \* the HTTP requests sent so far, in order
    ncalls,       \* number of calls started
    \* observation only: nothing below is read by the program
    myReq,        \* index in requests of the request the current call sent, or 0
    atCall,       \* the maps as they were when the current call was entered
    resp,         \* what client.Do returned to the current call
    hist,         \* per hostname: the last call that concerned its cache key
    writer        \* per hostname: the thread whose Discover wrote its entry last

\* Package svcauth: a Credentials list and the call last made on it.
VARIABLES
    chain,        \* the Credentials value: a sequence of sources
    chainRet,     \* the last call on the list: its arguments, result, and the
                  \* elements it called, in order
    nauth         \* number of svcauth calls made

\* Package svcauth: a cachingCredentialsSource.
VARIABLES
    source,       \* cachingCredentialsSource.source: the wrapped source
    memo,         \* cachingCredentialsSource.cache: a map, as a function
    ccall,        \* per thread: the call it is running on the caching source
    \* observation only
    served,       \* per hostname: the result of the last successful ForHost
                  \* since the last StoreForHost or ForgetForHost
    lastCall      \* per hostname: name and error of the last call that
                  \* returned for it

caching == <<source, memo, ccall, served, lastCall>>
auth == <<chain, chainRet, nauth, source, memo, ccall, served, lastCall>>

\* Package disco: a Host value and the query last made on it.
VARIABLES
    theHost,      \* the Host: discoURL, hostname, services
    query         \* the last ServiceURL or ServiceOAuthClient call on it: the
                  \* method, the id argument, and what it returned

queries == <<theHost, query>>

vars == <<aliases, hostCache, mu, credsSrc, pc, op, hostname, credsHostname,
          creds, ret, requests, ncalls, myReq, atCall, resp, hist, writer,
          chain, chainRet, nauth, source, memo, ccall, served, lastCall,
          theHost, query>>

disco == <<aliases, hostCache, mu, credsSrc>>
locals == <<hostname, credsHostname, creds>>

NoOp == [name |-> "none", host |-> ""]
NoRet == [host |-> NilHost, creds |-> NoCreds, err |-> NoErr]
NoSnapshot == [cache |-> EmptyMap, aliases |-> EmptyMap]
NoResp == [none |-> TRUE]

\* hist[h].last is "none", "ok" or "err" (a Discover(h) returned a Host or an
\* error), "forced" (ForceHostServices(h)), "forgotten" (Forget(h), ForgetAll)
\* or "unaliased" (ForgetAlias(h)); reqs is the number of requests the last
\* Discover(h) sent (-1: none since), served the Host it returned, forced the
\* services argument of the ForceHostServices(h) still in force ("" if none).
NoHist == [last |-> "none", reqs |-> -1, served |-> NilHost, forced |-> ""]

\* No svcauth value is in use.
NoChainRet == [op |-> "none"]
NoChain ==
    /\ chain = <<>>
    /\ chainRet = NoChainRet
NoSource == [kind |-> "none", creds |-> EmptyMap]
\* A call record carries, for observation, the number of calls it made into
\* the wrapped source and the cache as it was when the call was entered.
NoCall == [pc |-> "idle", name |-> "none", host |-> "", arg |-> NoCreds,
           creds |-> NoCreds, err |-> NoErr, queried |-> 0, before |-> EmptyMap]
NoLastCall == [name |-> "none", err |-> NoErr]
NoServed == [none |-> TRUE]
NoCaching ==
    /\ source = NoSource
    /\ memo = EmptyMap
    /\ ccall = [p \in Procs |-> NoCall]
    /\ served = [h \in Hosts |-> NoServed]
    /\ lastCall = [h \in Hosts |-> NoLastCall]
NoAuth == NoChain /\ NoCaching /\ nauth = 0

\* disco.New: empty maps, and the credentials source of the WithCredentials
\* option when the caller gives one.
New ==
    /\ aliases = EmptyMap
    /\ hostCache = EmptyMap
    /\ mu = "free"
    /\ credsSrc \in SrcKinds
    /\ pc = [p \in Procs |-> "idle"]
    /\ op = [p \in Procs |-> NoOp]
    /\ hostname = [p \in Procs |-> ""]
    /\ credsHostname = [p \in Procs |-> ""]
    /\ creds = [p \in Procs |-> NoCreds]
    /\ ret = [p \in Procs |-> NoRet]
    /\ requests = <<>>
    /\ ncalls = 0
    /\ myReq = [p \in Procs |-> 0]
    /\ atCall = [p \in Procs |-> NoSnapshot]
    /\ resp = [p \in Procs |-> NoResp]
    /\ hist = [h \in Hosts |-> NoHist]
    /\ writer = [h \in Hosts |-> ""]

\* No Host value is under query.
NoQuery == [method |-> "none"]
NoQueries ==
    /\ theHost = NilHost
    /\ query = NoQuery

Init == New /\ NoAuth /\ NoQueries

\* Go map operations on a function whose domain is the set of keys.
MapPut(m, k, v) == [x \in (DOMAIN m) \cup {k} |-> IF x = k THEN v ELSE m[x]]
MapDelete(m, k) == [x \in (DOMAIN m) \ {k} |-> m[x]]

\* An unrecovered panic ends the whole program.
Running == \A p \in Procs : pc[p] # "panicked"

\* A thread enters a call.
Begin(p, R) ==
    /\ Running
    /\ pc[p] = "idle"
    /\ ncalls < R.max
    /\ ncalls' = ncalls + 1

\* Entry of a call that takes several steps.
Enter(p, R, name, h) ==
    /\ Begin(p, R)
    /\ op' = [op EXCEPT ![p] = [name |-> name, host |-> h]]
    /\ atCall' = IF R.seq
                 THEN [atCall EXCEPT ![p] = [cache |-> hostCache, aliases |-> aliases]]
                 ELSE atCall
    /\ resp' = resp

\* The observation variables after a call that concerned the cache key h.
Record(R, h, event) ==
    /\ hist' = IF R.seq THEN [hist EXCEPT ![h] = event]
               ELSE IF R.track
               THEN [hist EXCEPT ![h] = [event EXCEPT !.reqs = Len(requests)]]
               ELSE hist
    /\ writer' = IF R.seq THEN writer ELSE [writer EXCEPT ![h] = ""]

\* ------------------------------------------------------ one-step operations
\* Disco.SetCredentialsSource: a plain store, no lock.
SetCredentialsSource(p, R) ==
    \E src \in IF R.callback THEN SrcKinds \cup {"callback"} ELSE SrcKinds :
        /\ Begin(p, R)
        /\ credsSrc' = src
        /\ UNCHANGED <<aliases, hostCache, mu, pc, op, locals, ret, requests,
                       myReq, atCall, resp, hist, writer>>

\* ForcedHost with the display form of the hostname in the base URL.
ForcedHost_DisplayURL(h, s) ==
    [discoURL |-> DiscoURL(ForDisplay(h)), hostname |-> ForDisplay(h),
     services |-> IF s = "nil" THEN "empty" ELSE s, req |-> 0]

\* The Host ForceHostServices builds: nil services become an empty map.
ForcedHost(h, s) ==
    [discoURL |-> DiscoURL(h), hostname |-> ForDisplay(h),
     services |-> IF s = "nil" THEN "empty" ELSE s, req |-> 0]

\* Disco.ForceHostServices: the synthetic Host is stored under the given
\* hostname with d.mu held.
ForceHostServices(p, R) ==
    \E h \in R.hosts, s \in ForcedServices :
        /\ Begin(p, R)
        /\ mu = "free"
        /\ hostCache' = MapPut(hostCache, h, ForcedHost(h, s))
        /\ Record(R, h, [last |-> "forced", reqs |-> -1, served |-> NilHost, forced |-> s])
        /\ UNCHANGED <<aliases, mu, credsSrc, pc, op, locals, ret, requests, myReq, atCall, resp>>

\* Disco.Alias
Alias(p, R) ==
    \E a \in R.hosts, t \in R.hosts :
        /\ Begin(p, R)
        /\ mu = "free"
        /\ aliases' = MapPut(aliases, a, t)
        /\ hist' = IF (R.seq \/ R.track) /\ hist[a].last = "unaliased"
                   THEN [hist EXCEPT ![a].last = "forgotten"] ELSE hist
        /\ UNCHANGED <<hostCache, mu, credsSrc, pc, op, locals, ret, requests,
                       myReq, atCall, resp, writer>>

\* forgetInternal that drops the whole cache.
forgetInternal_Clears(cache, h) == EmptyMap

\* forgetInternal that deletes nothing.
forgetInternal_Keeps(cache, h) == cache

\* Disco.forgetInternal
forgetInternal(cache, h) == MapDelete(cache, h)

\* Disco.Forget
Forget(p, R) ==
    \E h \in R.hosts :
        /\ Begin(p, R)
        /\ mu = "free"
        /\ hostCache' = forgetInternal(hostCache, h)
        /\ Record(R, h, [NoHist EXCEPT !.last = "forgotten"])
        /\ UNCHANGED <<aliases, mu, credsSrc, pc, op, locals, ret, requests, myReq, atCall, resp>>

\* Disco.ForgetAll
ForgetAll(p, R) ==
    /\ Begin(p, R)
    /\ mu = "free"
    /\ hostCache' = EmptyMap
    /\ hist' = IF R.seq THEN [h \in Hosts |-> [NoHist EXCEPT !.last = "forgotten"]]
               ELSE IF R.track
               THEN [h \in Hosts |-> [NoHist EXCEPT !.last = "forgotten",
                                                    !.reqs = Len(requests)]]
               ELSE hist
    /\ writer' = IF R.seq THEN writer ELSE [h \in Hosts |-> ""]
    /\ UNCHANGED <<aliases, mu, credsSrc, pc, op, locals, ret, requests, myReq, atCall, resp>>

\* ForgetAlias that removes the mapping but not the cache entry.
ForgetAlias_KeepsCache(p, R) ==
    \E a \in R.hosts :
        /\ Begin(p, R)
        /\ mu = "free"
        /\ aliases' = MapDelete(aliases, a)
        /\ Record(R, a, [NoHist EXCEPT !.last = "unaliased"])
        /\ UNCHANGED <<hostCache, mu, credsSrc, pc, op, locals, ret, requests, myReq, atCall, resp>>

\* Disco.ForgetAlias
ForgetAlias(p, R) ==
    \E a \in R.hosts :
        /\ Begin(p, R)
        /\ mu = "free"
        /\ aliases' = MapDelete(aliases, a)
        /\ hostCache' = forgetInternal(hostCache, a)
        /\ Record(R, a, [NoHist EXCEPT !.last = "unaliased"])
        /\ UNCHANGED <<mu, credsSrc, pc, op, locals, ret, requests, myReq, atCall, resp>>

\* ------------------------------------------------------ CredentialsForHost
\* discover returning the error of CredentialsForHost instead of going on
\* without credentials.
discoverDo_AbortsOnError(p, r) ==
    IF r.err # NoErr
    THEN /\ ret' = [ret EXCEPT ![p] = [host |-> NilHost, creds |-> NoCreds, err |-> r.err]]
         /\ pc' = [pc EXCEPT ![p] = "return"]
         /\ UNCHANGED <<creds, requests, myReq>>
    ELSE /\ Len(requests) < MaxRequests
         /\ creds' = [creds EXCEPT ![p] = r.creds]
         /\ requests' = Append(requests, [url |-> DiscoURL(hostname[p]),
                                          Authorization |-> creds'[p], by |-> p])
         /\ myReq' = [myReq EXCEPT ![p] = Len(requests) + 1]
         /\ pc' = [pc EXCEPT ![p] = "http"]
         /\ ret' = ret

\* discover: with the credentials CredentialsForHost returned (none when it
\* returned an error), creds.PrepareRequest(req) when creds is not nil, then
\* client.Do sends the GET to https://<hostname>/.well-known/terraform.json.
discoverDo(p, r) ==
    /\ Len(requests) < MaxRequests
    /\ creds' = [creds EXCEPT ![p] = IF r.err # NoErr THEN NoCreds ELSE r.creds]
    /\ requests' = Append(requests, [url |-> DiscoURL(hostname[p]),
                                     Authorization |-> creds'[p], by |-> p])
    /\ myReq' = [myReq EXCEPT ![p] = Len(requests) + 1]
    /\ pc' = [pc EXCEPT ![p] = "http"]
    /\ ret' = ret

\* What the caller of CredentialsForHost does with (creds, err): discover
\* goes on to the request, the public call returns both.
AfterCredentials(p, r) ==
    IF op[p].name = "Discover"
    THEN discoverDo(p, r)
    ELSE /\ ret' = [ret EXCEPT ![p] = [host |-> NilHost, creds |-> r.creds, err |-> r.err]]
         /\ pc' = [pc EXCEPT ![p] = "return"]
         /\ UNCHANGED <<creds, requests, myReq>>

\* Entry of the public call.
CallCredentialsForHost(p, R) ==
    \E h \in R.hosts :
        /\ Enter(p, R, "CredentialsForHost", h)
        /\ pc' = [pc EXCEPT ![p] = "CredentialsForHost"]
        /\ credsHostname' = [credsHostname EXCEPT ![p] = h]
        /\ UNCHANGED <<disco, hostname, creds, ret, requests, myReq, hist, writer>>

\* if d.credsSrc == nil { return nil, nil }
CredentialsForHostNoSource(p) ==
    /\ Running
    /\ pc[p] = "CredentialsForHost"
    /\ credsSrc = "nil"
    /\ AfterCredentials(p, [creds |-> NoCreds, err |-> NoErr])
    /\ UNCHANGED <<disco, op, hostname, credsHostname, ncalls, atCall, resp, hist, writer>>

\* CredentialsForHost without the alias lookup.
CredentialsAlias_Ignored(al, h) == h

\* CredentialsForHost: if aliasedHost, aliasExists := d.aliases[hostname];
\* aliasExists { hostname = aliasedHost }
CredentialsAlias(al, h) == IF h \in DOMAIN al THEN al[h] ELSE h

\* d.mu.Lock(); the alias lookup; the thread then calls into the source with
\* d.mu still held (the unlock is deferred).
CredentialsForHostLock(p) ==
    /\ Running
    /\ pc[p] = "CredentialsForHost"
    /\ credsSrc # "nil"
    /\ mu = "free"
    /\ mu' = p
    /\ credsHostname' = [credsHostname EXCEPT ![p] = CredentialsAlias(aliases, @)]
    /\ pc' = [pc EXCEPT ![p] = "ForHost"]
    /\ UNCHANGED <<aliases, hostCache, credsSrc, op, hostname, creds, ret, requests,
                   ncalls, myReq, atCall, resp, hist, writer>>

\* return d.credsSrc.ForHost(ctx, hostname), then the deferred d.mu.Unlock().
\* The field is read again here; on a nil interface the call panics.  A
\* source that calls Alias, Forget, Discover or CredentialsForHost of the
\* same Disco from its ForHost reaches the d.mu.Lock() of that method on the
\* thread that holds d.mu, and waits there.
CredentialsForHostSource(p) ==
    /\ Running
    /\ pc[p] = "ForHost"
    /\ IF credsSrc = "callback"
       THEN /\ pc' = [pc EXCEPT ![p] = "Lock"]
            /\ UNCHANGED <<mu, creds, ret, requests, myReq>>
       ELSE IF credsSrc = "nil"
       THEN /\ mu' = "free"
            /\ pc' = [pc EXCEPT ![p] = "panicked"]
            /\ UNCHANGED <<creds, ret, requests, myReq>>
       ELSE /\ mu' = "free"
            /\ AfterCredentials(p, SourceForHost(credsSrc, credsHostname[p]))
    /\ UNCHANGED <<aliases, hostCache, credsSrc, op, hostname, credsHostname,
                   ncalls, atCall, resp, hist, writer>>

\* ---------------------------------------------------------------- Discover
\* Discover looking the cache up under the alias target.
DiscoverLookup_PostAlias(p, R) ==
    \E h \in R.hosts :
        /\ Enter(p, R, "Discover", h)
        /\ mu = "free"
        /\ LET k == IF h \in DOMAIN aliases THEN aliases[h] ELSE h
           IN IF k \in DOMAIN hostCache
              THEN /\ ret' = [ret EXCEPT ![p] = [host |-> hostCache[k],
                                                  creds |-> NoCreds, err |-> NoErr]]
                   /\ pc' = [pc EXCEPT ![p] = "return"]
              ELSE /\ ret' = ret
                   /\ pc' = [pc EXCEPT ![p] = "discover"]
        /\ UNCHANGED <<disco, locals, requests, myReq, hist, writer>>

\* Discover, from its entry: the cache lookup under d.mu, keyed by the
\* hostname argument.
DiscoverLookup(p, R) ==
    \E h \in R.hosts :
        /\ Enter(p, R, "Discover", h)
        /\ mu = "free"
        /\ IF h \in DOMAIN hostCache
           THEN /\ ret' = [ret EXCEPT ![p] = [host |-> hostCache[h],
                                               creds |-> NoCreds, err |-> NoErr]]
                /\ pc' = [pc EXCEPT ![p] = "return"]
           ELSE /\ ret' = ret
                /\ pc' = [pc EXCEPT ![p] = "discover"]
        /\ UNCHANGED <<disco, locals, requests, myReq, hist, writer>>

\* discover without the alias lookup.
DiscoverAlias_Ignored(al, h) == h

\* discover: if aliasedHost, aliasExists := d.aliases[hostname]; aliasExists
\* { hostname = aliasedHost }
DiscoverAlias(al, h) == IF h \in DOMAIN al THEN al[h] ELSE h

\* discover: the alias lookup under d.mu; the request is then built for the
\* resulting hostname and CredentialsForHost is called with it.
discoverAlias(p) ==
    /\ Running
    /\ pc[p] = "discover"
    /\ mu = "free"
    /\ LET h == DiscoverAlias(aliases, op[p].host)
       IN /\ hostname' = [hostname EXCEPT ![p] = h]
          /\ credsHostname' = [credsHostname EXCEPT ![p] = h]
    /\ pc' = [pc EXCEPT ![p] = "CredentialsForHost"]
    /\ UNCHANGED <<disco, op, creds, ret, requests, ncalls, myReq, atCall, resp, resp, hist, writer>>

\* Discover going on to the cache write whatever discover returned.
discoverResponse_StoresOnError(p, R) ==
    /\ Running
    /\ pc[p] = "http"
    /\ \E got \in Do(hostname[p]) :
          LET r == DiscoverResult(hostname[p], got, myReq[p])
          IN /\ ret' = [ret EXCEPT ![p] = [host |-> r.host, creds |-> NoCreds, err |-> r.err]]
             /\ pc' = [pc EXCEPT ![p] = "store"]
             /\ resp' = IF R.seq THEN [resp EXCEPT ![p] = got] ELSE resp
    /\ UNCHANGED <<disco, op, locals, requests, ncalls, myReq, atCall, hist, writer>>

\* discover: client.Do returns and the response is interpreted; Discover
\* returns on an error and goes on to the cache write otherwise.
discoverResponse(p, R) ==
    /\ Running
    /\ pc[p] = "http"
    /\ \E got \in Do(hostname[p]) :
          LET r == DiscoverResult(hostname[p], got, myReq[p])
          IN /\ ret' = [ret EXCEPT ![p] = [host |-> r.host, creds |-> NoCreds, err |-> r.err]]
             /\ pc' = [pc EXCEPT ![p] = IF r.err # NoErr THEN "return" ELSE "store"]
             /\ resp' = IF R.seq THEN [resp EXCEPT ![p] = got] ELSE resp
    /\ UNCHANGED <<disco, op, locals, requests, ncalls, myReq, atCall, hist, writer>>

\* Discover writing the cache under the post-alias hostname of discover.
DiscoverStore_PostAlias(p, R) ==
    /\ Running
    /\ pc[p] = "store"
    /\ mu = "free"
    /\ hostCache' = MapPut(hostCache, hostname[p], ret[p].host)
    /\ writer' = IF R.seq THEN writer ELSE [writer EXCEPT ![hostname[p]] = p]
    /\ pc' = [pc EXCEPT ![p] = "return"]
    /\ UNCHANGED <<aliases, mu, credsSrc, op, locals, ret, requests, ncalls,
                   myReq, atCall, resp, hist>>

\* Discover writing the cache only when the hostname has no entry yet.
DiscoverStore_FirstWins(p, R) ==
    /\ Running
    /\ pc[p] = "store"
    /\ mu = "free"
    /\ hostCache' = IF op[p].host \in DOMAIN hostCache THEN hostCache
                    ELSE MapPut(hostCache, op[p].host, ret[p].host)
    /\ writer' = IF R.seq THEN writer ELSE [writer EXCEPT ![op[p].host] = p]
    /\ pc' = [pc EXCEPT ![p] = "return"]
    /\ UNCHANGED <<aliases, mu, credsSrc, op, locals, ret, requests, ncalls,
                   myReq, atCall, resp, hist>>

\* Discover: d.hostCache[hostname] = host under d.mu, keyed by the hostname
\* argument.
DiscoverStore(p, R) ==
    /\ Running
    /\ pc[p] = "store"
    /\ mu = "free"
    /\ hostCache' = MapPut(hostCache, op[p].host, ret[p].host)
    /\ writer' = IF R.seq THEN writer ELSE [writer EXCEPT ![op[p].host] = p]
    /\ pc' = [pc EXCEPT ![p] = "return"]
    /\ UNCHANGED <<aliases, mu, credsSrc, op, locals, ret, requests, ncalls,
                   myReq, atCall, resp, hist>>

\* The number of requests the current call of p has sent.
Sent(p) == IF myReq[p] = 0 THEN 0 ELSE 1

\* The call returns to its caller; its locals are gone.
Return(p, R) ==
    /\ Running
    /\ pc[p] = "return"
    /\ pc' = [pc EXCEPT ![p] = "idle"]
    /\ op' = [op EXCEPT ![p] = NoOp]
    /\ ret' = [ret EXCEPT ![p] = NoRet]
    /\ hostname' = [hostname EXCEPT ![p] = ""]
    /\ credsHostname' = [credsHostname EXCEPT ![p] = ""]
    /\ creds' = [creds EXCEPT ![p] = NoCreds]
    /\ myReq' = [myReq EXCEPT ![p] = 0]
    /\ atCall' = [atCall EXCEPT ![p] = NoSnapshot]
    /\ resp' = [resp EXCEPT ![p] = NoResp]
    /\ hist' = IF R.seq /\ op[p].name = "Discover"
               THEN [hist EXCEPT ![op[p].host] =
                       [last |-> IF ret[p].err = NoErr THEN "ok" ELSE "err",
                        reqs |-> Sent(p), served |-> ret[p].host, forced |-> @.forced]]
               ELSE hist
    /\ UNCHANGED <<disco, requests, ncalls, writer>>

\* ------------------------------------------------------------ specification
Step(p, R) ==
    \/ SetCredentialsSource(p, R)
    \/ ForceHostServices(p, R)
    \/ Alias(p, R)
    \/ Forget(p, R)
    \/ ForgetAll(p, R)
    \/ ForgetAlias(p, R)
    \/ CallCredentialsForHost(p, R)
    \/ CredentialsForHostNoSource(p)
    \/ CredentialsForHostLock(p)
    \/ CredentialsForHostSource(p)
    \/ DiscoverLookup(p, R)
    \/ discoverAlias(p)
    \/ discoverResponse(p, R)
    \/ DiscoverStore(p, R)
    \/ Return(p, R)

\* Threads calling into one Disco concurrently.
Next == (\E p \in ConcRun.procs : Step(p, ConcRun)) /\ UNCHANGED <<auth, queries>>
Spec == Init /\ [][Next]_vars

\* One thread: a sequential run.
SeqNext == (\E p \in SeqRun.procs : Step(p, SeqRun)) /\ UNCHANGED <<auth, queries>>
SeqSpec == Init /\ [][SeqNext]_vars

\* Threads calling concurrently, with the forcing and forgetting calls
\* recorded.
TrackNext == (\E p \in TrackRun.procs : Step(p, TrackRun)) /\ UNCHANGED <<auth, queries>>
TrackSpec == Init /\ [][TrackNext]_vars

\* One thread, with credentials sources that call back into the Disco.
CallbackNext ==
    (\E p \in CallbackRun.procs : Step(p, CallbackRun)) /\ UNCHANGED <<auth, queries>>
CallbackSpec == Init /\ [][CallbackNext]_vars

\* ----------------------------------------------------- svcauth.Credentials
\* The hostnames and the new credentials callers pass to svcauth values.
AuthHosts == {"a", "b"}
NewCreds == {"tok_new"}

\* A credentials source, by what it implements and what it holds: a "static"
\* source is a CredentialsSource only, a "store" also implements
\* CredentialsStore, a "failing" source returns an error from ForHost.
StaticSource == [kind |-> "static", creds |-> [h \in {"a"} |-> "tok_static"]]
FailingSource == [kind |-> "failing", creds |-> EmptyMap]
EmptyStore == [kind |-> "store", creds |-> EmptyMap]
ChainSources == {StaticSource, FailingSource, EmptyStore}

\* CredentialsSource.ForHost of one source.
SrcForHost(src, h) ==
    IF src.kind = "failing" THEN [creds |-> NoCreds, err |-> "source error"]
    ELSE [creds |-> IF h \in DOMAIN src.creds THEN src.creds[h] ELSE NoCreds,
          err |-> NoErr]

\* The type assertion source.(CredentialsStore).
IsStore(src) == src.kind \in {"store", "brokenstore"}

\* CredentialsStore.StoreForHost and ForgetForHost of one store: the store
\* afterwards and the error returned.  A "brokenstore" fails and keeps what
\* it holds.
SrcStoreForHost(src, h, c) ==
    IF src.kind = "store"
    THEN [src |-> [src EXCEPT !.creds = MapPut(@, h, c)], err |-> NoErr]
    ELSE [src |-> src, err |-> "store error"]
SrcForgetForHost(src, h) ==
    IF src.kind = "store"
    THEN [src |-> [src EXCEPT !.creds = MapDelete(@, h)], err |-> NoErr]
    ELSE [src |-> src, err |-> "store error"]

\* The loop of ForHost going on past a source that returned an error.
Halts_OnCredentialsOnly(r) == r.creds # NoCreds

\* Credentials.ForHost: if creds != nil || err != nil { return creds, err }
Halts(r) == r.creds # NoCreds \/ r.err # NoErr

\* Credentials.ForHost: the loop over the sources from element i on.  The
\* result carries the elements called, in order.
RECURSIVE TryInTurn(_, _, _)
TryInTurn(c, i, h) ==
    IF i > Len(c)
    THEN [creds |-> NoCreds, err |-> NoErr, called |-> [k \in 1..Len(c) |-> k]]
    ELSE LET r == SrcForHost(c[i], h)
         IN IF Halts(r)
            THEN [creds |-> r.creds, err |-> r.err, called |-> [k \in 1..i |-> k]]
            ELSE TryInTurn(c, i + 1, h)

\* Store returning the first element of the list that is a store.
Store_AnyElement(c) ==
    IF \E i \in 1..Len(c) : IsStore(c[i])
    THEN CHOOSE i \in 1..Len(c) : IsStore(c[i]) /\ \A j \in 1..(i - 1) : ~IsStore(c[j])
    ELSE 0

\* Credentials.Store: the index of the element used as the store, 0 for nil.
Store(c) ==
    IF Len(c) = 0 THEN 0
    ELSE IF IsStore(c[1]) THEN 1
    ELSE 0

\* A call on the Credentials value begins.
ChainBegin ==
    /\ nauth < MaxAuthCalls
    /\ nauth' = nauth + 1

\* Credentials.ForHost
Credentials_ForHost ==
    \E h \in AuthHosts :
        /\ ChainBegin
        /\ LET r == TryInTurn(chain, 1, h)
           IN chainRet' = [op |-> "ForHost", host |-> h, creds |-> r.creds,
                           err |-> r.err, called |-> r.called, before |-> chain]
        /\ chain' = chain

\* Credentials.StoreForHost
Credentials_StoreForHost ==
    \E h \in AuthHosts, c \in NewCreds :
        /\ ChainBegin
        /\ LET store == Store(chain) IN
           IF store = 0
           THEN /\ chainRet' = [op |-> "StoreForHost", host |-> h, creds |-> c,
                                err |-> "no credentials store is available",
                                called |-> <<>>, before |-> chain]
                /\ chain' = chain
           ELSE LET r == SrcStoreForHost(chain[store], h, c)
                IN /\ chainRet' = [op |-> "StoreForHost", host |-> h, creds |-> c,
                                   err |-> r.err, called |-> <<store>>, before |-> chain]
                   /\ chain' = [chain EXCEPT ![store] = r.src]

\* Credentials.ForgetForHost
Credentials_ForgetForHost ==
    \E h \in AuthHosts :
        /\ ChainBegin
        /\ LET store == Store(chain) IN
           IF store = 0
           THEN /\ chainRet' = [op |-> "ForgetForHost", host |-> h, creds |-> NoCreds,
                                err |-> "no credentials store is available",
                                called |-> <<>>, before |-> chain]
                /\ chain' = chain
           ELSE LET r == SrcForgetForHost(chain[store], h)
                IN /\ chainRet' = [op |-> "ForgetForHost", host |-> h, creds |-> NoCreds,
                                   err |-> r.err, called |-> <<store>>, before |-> chain]
                   /\ chain' = [chain EXCEPT ![store] = r.src]

\* A run on svcauth values only: the Disco is built and never called.
DiscoUnused == New /\ credsSrc = "nil" /\ NoQueries
disco_all == <<aliases, hostCache, mu, credsSrc, pc, op, hostname, credsHostname,
               creds, ret, requests, ncalls, myReq, atCall, resp, hist, writer>>

\* A caller builds a Credentials list of up to MaxChain sources and calls it
\* from one thread.
Chains == UNION {[1..n -> ChainSources] : n \in 0..MaxChain}
ChainInit ==
    /\ DiscoUnused /\ NoCaching
    /\ chain \in Chains
    /\ chainRet = NoChainRet
    /\ nauth = 0
ChainNext ==
    /\ \/ Credentials_ForHost
       \/ Credentials_StoreForHost
       \/ Credentials_ForgetForHost
    /\ UNCHANGED <<disco_all, caching, queries>>
ChainSpec == ChainInit /\ [][ChainNext]_vars

\* ------------------------------------------- svcauth.cachingCredentialsSource
\* The sources a caller wraps: the sources above, a store that already holds
\* credentials for a, and a store whose StoreForHost and ForgetForHost fail.
StoreWithA == [kind |-> "store", creds |-> [h \in {"a"} |-> "tok_old"]]
BrokenStore == [kind |-> "brokenstore", creds |-> [h \in {"a"} |-> "tok_old"]]
CachingSources == {StaticSource, FailingSource, EmptyStore, StoreWithA, BrokenStore}

\* A thread enters a call on the caching source.
CachingBegin(p) ==
    /\ ccall[p].pc = "idle"
    /\ nauth < MaxAuthCalls
    /\ nauth' = nauth + 1

\* The cache lookup treating a cached nil as a miss.
Cached_NonNil(m, h) == h \in DOMAIN m /\ m[h] # NoCreds

\* ForHost: cache, cached := s.cache[host]
Cached(m, h) == h \in DOMAIN m

\* cachingCredentialsSource.ForHost, from its entry: the lookup under s.mu.
CachingForHost(p) ==
    \E h \in AuthHosts :
        /\ CachingBegin(p)
        /\ ccall' = [ccall EXCEPT ![p] =
               IF Cached(memo, h)
               THEN [NoCall EXCEPT !.pc = "return", !.name = "ForHost", !.host = h,
                                   !.creds = memo[h], !.before = memo]
               ELSE [NoCall EXCEPT !.pc = "query", !.name = "ForHost", !.host = h,
                                   !.before = memo]]
        /\ UNCHANGED <<source, memo, served, lastCall>>

\* ForHost going on to fill the cache whatever the wrapped source returned.
CachingQuery_CachesError(p) ==
    /\ ccall[p].pc = "query"
    /\ LET r == SrcForHost(source, ccall[p].host)
       IN ccall' = [ccall EXCEPT ![p].creds = r.creds, ![p].err = r.err,
                                 ![p].queried = @ + 1, ![p].pc = "fill"]
    /\ UNCHANGED <<source, memo, served, lastCall, nauth>>

\* ForHost: result, err := s.source.ForHost(ctx, host); an error is returned
\* as it is.
CachingQuery(p) ==
    /\ ccall[p].pc = "query"
    /\ LET r == SrcForHost(source, ccall[p].host)
       IN ccall' = [ccall EXCEPT ![p].creds = r.creds, ![p].err = r.err,
                                 ![p].queried = @ + 1,
                                 ![p].pc = IF r.err # NoErr THEN "return" ELSE "fill"]
    /\ UNCHANGED <<source, memo, served, lastCall, nauth>>

\* ForHost: s.cache[host] = result under s.mu.
CachingFill(p) ==
    /\ ccall[p].pc = "fill"
    /\ memo' = MapPut(memo, ccall[p].host, ccall[p].creds)
    /\ ccall' = [ccall EXCEPT ![p].pc = "return"]
    /\ UNCHANGED <<source, served, lastCall, nauth>>

\* StoreForHost and ForgetForHost deleting the entry only when the wrapped
\* source is a store.
CachingInvalidate_OnlyForStores(p) ==
    \E h \in AuthHosts, name \in {"StoreForHost", "ForgetForHost"}, c \in NewCreds :
        /\ CachingBegin(p)
        /\ memo' = IF IsStore(source) THEN MapDelete(memo, h) ELSE memo
        /\ served' = [served EXCEPT ![h] = NoServed]
        /\ ccall' = [ccall EXCEPT ![p] =
               [NoCall EXCEPT !.pc = "delegate", !.name = name, !.host = h,
                              !.arg = IF name = "StoreForHost" THEN c ELSE NoCreds]]
        /\ UNCHANGED <<source, lastCall>>

\* cachingCredentialsSource.StoreForHost and ForgetForHost, from the entry:
\* delete(s.cache, host) under s.mu.
CachingInvalidate(p) ==
    \E h \in AuthHosts, name \in {"StoreForHost", "ForgetForHost"}, c \in NewCreds :
        /\ CachingBegin(p)
        /\ memo' = MapDelete(memo, h)
        /\ served' = [served EXCEPT ![h] = NoServed]
        /\ ccall' = [ccall EXCEPT ![p] =
               [NoCall EXCEPT !.pc = "delegate", !.name = name, !.host = h,
                              !.arg = IF name = "StoreForHost" THEN c ELSE NoCreds]]
        /\ UNCHANGED <<source, lastCall>>

\* StoreForHost and ForgetForHost: the type assertion on the wrapped source,
\* then the same operation on it.
CachingDelegate(p) ==
    /\ ccall[p].pc = "delegate"
    /\ IF ~IsStore(source)
       THEN /\ ccall' = [ccall EXCEPT ![p].err = "no credentials store is available",
                                      ![p].pc = "return"]
            /\ source' = source
       ELSE LET r == IF ccall[p].name = "StoreForHost"
                     THEN SrcStoreForHost(source, ccall[p].host, ccall[p].arg)
                     ELSE SrcForgetForHost(source, ccall[p].host)
            IN /\ ccall' = [ccall EXCEPT ![p].err = r.err, ![p].queried = @ + 1,
                                         ![p].pc = "return"]
               /\ source' = r.src
    /\ UNCHANGED <<memo, served, lastCall, nauth>>

\* The call returns to its caller.
CachingReturn(p) ==
    /\ ccall[p].pc = "return"
    /\ ccall' = [ccall EXCEPT ![p] = NoCall]
    /\ served' = IF ccall[p].name = "ForHost" /\ ccall[p].err = NoErr
                 THEN [served EXCEPT ![ccall[p].host] = [creds |-> ccall[p].creds]]
                 ELSE served
    /\ lastCall' = [lastCall EXCEPT ![ccall[p].host] =
                        [name |-> ccall[p].name, err |-> ccall[p].err]]
    /\ UNCHANGED <<source, memo, nauth>>

\* Another holder of the wrapped store writes to it directly.
WrappedStoreChanges ==
    \E h \in AuthHosts, c \in NewCreds :
        /\ \A p \in Procs : ccall[p].pc = "idle"
        /\ nauth < MaxAuthCalls
        /\ nauth' = nauth + 1
        /\ source.kind = "store"
        /\ source' = SrcStoreForHost(source, h, c).src
        /\ UNCHANGED <<memo, ccall, served, lastCall>>

\* What made the wrapped source fail goes away: it answers from then on.
WrappedSourceRecovers ==
    /\ \A p \in Procs : ccall[p].pc = "idle"
    /\ source = FailingSource
    /\ source' = StaticSource
    /\ UNCHANGED <<memo, ccall, served, lastCall, nauth>>

CachingStep(p) ==
    \/ CachingForHost(p)
    \/ CachingQuery(p)
    \/ CachingFill(p)
    \/ CachingInvalidate(p)
    \/ CachingDelegate(p)
    \/ CachingReturn(p)

\* CachingCredentialsSource(source), called from one thread.
CachingInit ==
    /\ DiscoUnused /\ NoChain
    /\ source \in CachingSources
    /\ memo = EmptyMap
    /\ ccall = [p \in Procs |-> NoCall]
    /\ served = [h \in Hosts |-> NoServed]
    /\ lastCall = [h \in Hosts |-> NoLastCall]
    /\ nauth = 0
CachingNext ==
    /\ \/ \E p \in SeqRun.procs : CachingStep(p)
       \/ WrappedStoreChanges
       \/ WrappedSourceRecovers
    /\ UNCHANGED <<disco_all, chain, chainRet, queries>>
CachingSpec == CachingInit /\ [][CachingNext]_vars

\* Two threads calling one caching source concurrently; nobody else writes
\* to the wrapped source.
CachingConcNext ==
    /\ \E p \in Procs : CachingStep(p)
    /\ UNCHANGED <<disco_all, chain, chainRet, queries>>
CachingConcSpec == CachingInit /\ [][CachingConcNext]_vars

\* --------------------------------------------------------------- disco.Host
\* Service identifiers are strings, held as sequences of characters so that
\* strings.SplitN, strings.HasPrefix and strconv.ParseUint can take them
\* apart.  The service names are one letter long.

\* strconv.ParseUint(s, 10, 64) on a short string: the value, or -1 for an
\* empty string or one with a character that is not a digit.
RECURSIVE ParseUint(_)
ParseUint(str) ==
    LET Digits == <<"0", "1", "2", "3", "4", "5", "6", "7", "8", "9">>
        DigitValue(c) == (CHOOSE i \in 1..10 : Digits[i] = c) - 1
        IsDigit(c) == \E i \in 1..10 : Digits[i] = c
    IN IF str = <<>> THEN -1
       ELSE IF \E i \in 1..Len(str) : ~IsDigit(str[i]) THEN -1
       ELSE IF Len(str) = 1 THEN DigitValue(str[1])
       ELSE 10 * ParseUint(SubSeq(str, 1, Len(str) - 1)) + DigitValue(str[Len(str)])

\* strings.HasPrefix
HasPrefix(str, prefix) ==
    Len(prefix) <= Len(str) /\ SubSeq(str, 1, Len(prefix)) = prefix

\* parseServiceID: name, version and error of an id "servicename.vN".
parseServiceID(id) ==
    LET dots == {i \in 1..Len(id) : id[i] = "."} IN
    IF dots = {}
    THEN [name |-> <<>>, version |-> 0, err |-> "invalid service ID format"]
    ELSE LET dot == CHOOSE i \in dots : \A j \in dots : i <= j
             first == SubSeq(id, 1, dot - 1)
             second == SubSeq(id, dot + 1, Len(id))
         IN IF ~HasPrefix(second, <<"v">>)
            THEN [name |-> <<>>, version |-> 0, err |-> "invalid service version"]
            ELSE IF ParseUint(Tail(second)) < 0
            THEN [name |-> <<>>, version |-> 0, err |-> "invalid service version"]
            ELSE [name |-> first, version |-> ParseUint(Tail(second)), err |-> NoErr]

\* A url.URL, held as its components: scheme, user info, host, path (its
\* segments, and whether it starts with "/") and fragment; "" is an absent
\* component.  malformed marks the outcome of url.Parse on a string it
\* rejects.  NoURL is a nil *url.URL.
URLString(scheme, user, hostpart, rooted, path, fragment) ==
    [malformed |-> FALSE, scheme |-> scheme, user |-> user, host |-> hostpart,
     rooted |-> rooted, path |-> path, fragment |-> fragment]
NoURL == [nil |-> TRUE]

\* url.URL.ResolveReference for a reference without a scheme (RFC 3986,
\* section 5.2.2; the references here have no dot segments and no query).
ResolveReference(base, ref) ==
    IF ref.host # ""
    THEN [ref EXCEPT !.scheme = base.scheme]
    ELSE IF ref.path = <<>>
    THEN [base EXCEPT !.fragment = ref.fragment]
    ELSE IF ref.rooted
    THEN [base EXCEPT !.path = ref.path, !.fragment = ref.fragment]
    ELSE [base EXCEPT !.path = SubSeq(base.path, 1, Len(base.path) - 1) \o ref.path,
                      !.fragment = ref.fragment]

\* url.Parse on the strings of the documents; any other string here is a
\* relative path of one segment.
Parse(str) ==
    CASE str = "https://svc.example/api/v1" ->
             URLString("https", "", "svc.example", TRUE, <<"api", "v1">>, "")
      [] str = "http://svc.example/api" ->
             URLString("http", "", "svc.example", TRUE, <<"api">>, "")
      [] str = "https://svc.example" ->
             URLString("https", "", "svc.example", FALSE, <<>>, "")
      [] str = "https://svc.example/api#frag" ->
             URLString("https", "", "svc.example", TRUE, <<"api">>, "frag")
      [] str = "https://user:pw@svc.example/api" ->
             URLString("https", "user:pw", "svc.example", TRUE, <<"api">>, "")
      [] str = "ftp://svc.example/api" ->
             URLString("ftp", "", "svc.example", TRUE, <<"api">>, "")
      [] str = "api/v1#frag" -> URLString("", "", "", FALSE, <<"api", "v1">>, "frag")
      [] str = "/api" -> URLString("", "", "", TRUE, <<"api">>, "")
      [] str = "//other.example/api" ->
             URLString("", "", "other.example", TRUE, <<"api">>, "")
      [] str = "//user@other.example/api" ->
             URLString("", "user", "other.example", TRUE, <<"api">>, "")
      [] str = "#frag" -> URLString("", "", "", FALSE, <<>>, "frag")
      [] str = "https://svc.example/%zz" ->
             [URLString("", "", "", FALSE, <<>>, "") EXCEPT !.malformed = TRUE]
      [] OTHER -> URLString("", "", "", FALSE, <<str>>, "")

\* parseURL keeping the fragment.
StripFragment_Keeps(u) == u

\* parseURL: u.Fragment = ""
StripFragment(u) == [u EXCEPT !.fragment = ""]

\* parseURL without the check on u.User.
UserInfoError_Unchecked(u) == NoErr

\* parseURL: if u.User != nil { return nil, ... }
UserInfoError(u) ==
    IF u.user # "" THEN "embedded username/password information is not permitted"
    ELSE NoErr

\* Host.parseURL
parseURL(h, urlStr) ==
    IF Parse(urlStr).malformed THEN [url |-> NoURL, err |-> "parse error"]
    ELSE LET u == IF Parse(urlStr).scheme = ""
                  THEN ResolveReference(h.discoURL, Parse(urlStr))
                  ELSE Parse(urlStr)
         IN IF u.scheme # "https" /\ u.scheme # "http"
            THEN [url |-> NoURL, err |-> "unsupported scheme"]
            ELSE IF UserInfoError(u) # NoErr
            THEN [url |-> NoURL, err |-> UserInfoError(u)]
            ELSE [url |-> StripFragment(u), err |-> NoErr]

\* The errors of the service lookup, and every other error (OtherError(NoErr)
\* is a nil error).
ErrServiceNotProvided(hn, service) ==
    [kind |-> "ErrServiceNotProvided", hostname |-> hn, service |-> service, version |-> 0]
ErrVersionNotSupported(hn, service, version) ==
    [kind |-> "ErrVersionNotSupported", hostname |-> hn, service |-> service,
     version |-> version]
OtherError(msg) == [kind |-> msg, hostname |-> "", service |-> <<>>, version |-> 0]

\* ServiceURL and ServiceOAuthClient: the loop over h.services looking for
\* another id of the same service.
OtherVersion(h, name) ==
    \E serviceID \in DOMAIN h.services : HasPrefix(serviceID, name \o <<".">>)

\* Host.ServiceURL
ServiceURL(h, id) ==
    LET parsed == parseServiceID(id) IN
    IF parsed.err # NoErr THEN [url |-> NoURL, err |-> OtherError(parsed.err)]
    ELSE IF h = NilHost \/ h.nilServices
    THEN [url |-> NoURL, err |-> ErrServiceNotProvided("", parsed.name)]
    ELSE IF ~(id \in DOMAIN h.services /\ h.services[id].type = "string")
    THEN IF OtherVersion(h, parsed.name)
         THEN [url |-> NoURL,
               err |-> ErrVersionNotSupported(h.hostname, parsed.name, parsed.version)]
         ELSE [url |-> NoURL, err |-> ErrServiceNotProvided(h.hostname, parsed.name)]
    ELSE LET r == parseURL(h, h.services[id].str)
         IN IF r.err # NoErr
            THEN [url |-> NoURL, err |-> OtherError("failed to parse service URL")]
            ELSE [url |-> r.url, err |-> OtherError(NoErr)]

\* A value of the services map or of an OAuth descriptor, by its Go dynamic
\* type: "string", "float" (float64; num is twice the number, so that halves
\* are exact), "int", "array" ([]any), "object" (map[string]any), "maps"
\* ([]map[string]any; elems holds its maps, each as an object value), "nil".
Go(type, x) ==
    [type |-> type,
     str |-> IF type = "string" THEN x ELSE "",
     num |-> IF type \in {"float", "int"} THEN x ELSE 0,
     elems |-> IF type \in {"array", "maps"} THEN x ELSE <<>>,
     members |-> IF type = "object" THEN x ELSE EmptyMap]
IsType(m, key, type) == key \in DOMAIN m /\ m[key].type = type

\* The conversion uint16(v) of a float64.  A value with a representable
\* integer part is truncated; for any other value the result depends on the
\* build: amd64 converts to a 64-bit integer and keeps the low 16 bits, arm64
\* saturates.
Uint16(twice, build) ==
    IF twice > -2 /\ twice < 2 * 65536
    THEN IF twice < 0 THEN 0 ELSE twice \div 2
    ELSE IF build = "amd64" THEN (twice \div 2) % 65536
    ELSE IF twice < 0 THEN 0 ELSE 65535

\* NewOAuthGrantTypeSet and the two predicates of OAuthGrantTypeSet.
NewOAuthGrantTypeSet(kws) == {kws[i] : i \in 1..Len(kws)}
RequiresAuthorizationEndpoint(grantTypes) == \E k \in grantTypes : k # "password"
RequiresTokenEndpoint(grantTypes) == grantTypes # {}

\* ServiceOAuthClient with the password grant as the default.
DefaultGrantTypes_Password == <<"password">>

\* ServiceOAuthClient: grantTypes = NewOAuthGrantTypeSet("authz_code")
DefaultGrantTypes == <<"authz_code">>

\* The strings of a []any, in order, the other elements skipped.
RECURSIVE StringsOf(_)
StringsOf(elems) ==
    IF elems = <<>> THEN <<>>
    ELSE IF elems[1].type = "string" THEN <<elems[1].str>> \o StringsOf(Tail(elems))
    ELSE StringsOf(Tail(elems))

\* The float64 case accepting every value that is at least 1024.
FloatPortInvalid_NoRoundTrip(twice, build) == twice < 2 * 1024

\* ServiceOAuthClient: float64(uint16(v)) != v || v < 1024
FloatPortInvalid(twice, build) ==
    2 * Uint16(twice, build) # twice \/ twice < 2 * 1024

\* ServiceOAuthClient: the ports property.  Each element is taken by its
\* type; without an array of ports the whole range is allowed.
Ports(raw, build) ==
    LET Port(elem) ==
            CASE elem.type = "float" ->
                     IF FloatPortInvalid(elem.num, build) THEN [port |-> 0, ok |-> FALSE]
                     ELSE [port |-> Uint16(elem.num, build), ok |-> TRUE]
              [] elem.type = "int" ->
                     IF elem.num < 1024 \/ elem.num > 65535 THEN [port |-> 0, ok |-> FALSE]
                     ELSE [port |-> elem.num % 65536, ok |-> TRUE]
              [] OTHER -> [port |-> 0, ok |-> FALSE]
    IN IF IsType(raw, "ports", "array")
       THEN LET portsRaw == raw["ports"].elems IN
            IF Len(portsRaw) # 2
            THEN [min |-> 0, max |-> 0, err |-> "must be a two-element array"]
            ELSE IF ~Port(portsRaw[1]).ok \/ ~Port(portsRaw[2]).ok
            THEN [min |-> 0, max |-> 0,
                  err |-> "both ports must be whole numbers between 1024 and 65535"]
            ELSE IF Port(portsRaw[2]).port < Port(portsRaw[1]).port
            THEN [min |-> 0, max |-> 0,
                  err |-> "minimum port cannot be greater than maximum port"]
            ELSE [min |-> Port(portsRaw[1]).port, max |-> Port(portsRaw[2]).port,
                  err |-> NoErr]
       ELSE [min |-> 1024, max |-> 65535, err |-> NoErr]

\* Appending to a []string that starts out as an empty, non-nil slice.
ScopesOf_EmptyNotNil(list) == [nil |-> FALSE, list |-> list]

\* ServiceOAuthClient: var scopes []string, then one append per element; a
\* []string is nil or holds its elements.
ScopesOf(list) == [nil |-> list = <<>>, list |-> list]

\* Host.ServiceOAuthClient.  The type switch on h.services[id] picks the
\* descriptor (indexing an empty []map[string]any panics); then come the
\* grant types, the client, the two endpoints (a string is parsed with
\* parseURL, anything else is an error when the endpoint is required), the
\* ports and the scopes.  NoClient is a nil *OAuthClient.
NoClient == [nil |-> TRUE]
ServiceOAuthClient(h, id, build) ==
    LET parsed == parseServiceID(id)
        fail(e) == [client |-> NoClient, err |-> e]
        value == h.services[id]
        raw == IF value.type = "object" THEN value.members ELSE value.elems[1].members
        gts == IF "grant_types" \in DOMAIN raw
               THEN IF raw["grant_types"].type = "array"
                    THEN [set |-> NewOAuthGrantTypeSet(StringsOf(raw["grant_types"].elems)),
                          err |-> NoErr]
                    ELSE [set |-> {}, err |-> "invalid grant_types property"]
               ELSE [set |-> NewOAuthGrantTypeSet(DefaultGrantTypes), err |-> NoErr]
        Endpoint(key, required) ==
            IF IsType(raw, key, "string")
            THEN IF parseURL(h, raw[key].str).err # NoErr
                 THEN [url |-> NoURL, err |-> "failed to parse URL " \o key]
                 ELSE [url |-> parseURL(h, raw[key].str).url, err |-> NoErr]
            ELSE IF required
            THEN [url |-> NoURL, err |-> "missing required property " \o key]
            ELSE [url |-> NoURL, err |-> NoErr]
        authz == Endpoint("authz", RequiresAuthorizationEndpoint(gts.set))
        token == Endpoint("token", RequiresTokenEndpoint(gts.set))
        ports == Ports(raw, build)
        scopesRaw == raw["scopes"].elems
    IN IF parsed.err # NoErr THEN fail(OtherError(parsed.err))
       ELSE IF h = NilHost \/ h.nilServices
       THEN fail(ErrServiceNotProvided("", parsed.name))
       ELSE IF id \notin DOMAIN h.services
       THEN IF OtherVersion(h, parsed.name)
            THEN fail(ErrVersionNotSupported(h.hostname, parsed.name, parsed.version))
            ELSE fail(ErrServiceNotProvided(h.hostname, parsed.name))
       ELSE IF value.type = "maps" /\ value.elems = <<>> THEN fail(OtherError("panic"))
       ELSE IF value.type \notin {"object", "maps"}
       THEN fail(OtherError("must be declared with an object value"))
       ELSE IF gts.err # NoErr THEN fail(OtherError(gts.err))
       ELSE IF ~IsType(raw, "client", "string")
       THEN fail(OtherError("missing required property client"))
       ELSE IF authz.err # NoErr THEN fail(OtherError(authz.err))
       ELSE IF token.err # NoErr THEN fail(OtherError(token.err))
       ELSE IF ports.err # NoErr THEN fail(OtherError(ports.err))
       ELSE IF IsType(raw, "scopes", "array")
                 /\ \E i \in 1..Len(scopesRaw) : scopesRaw[i].type # "string"
       THEN fail(OtherError("all scopes must be strings"))
       ELSE [client |-> [ID |-> raw["client"].str,
                         AuthorizationURL |-> authz.url,
                         TokenURL |-> token.url,
                         MinPort |-> ports.min, MaxPort |-> ports.max,
                         SupportedGrantTypes |-> gts.set,
                         Scopes |-> IF IsType(raw, "scopes", "array")
                                    THEN ScopesOf(StringsOf(scopesRaw))
                                    ELSE [nil |-> TRUE, list |-> <<>>]],
             err |-> OtherError(NoErr)]

\* ------------------------------------------------- the discovery document
\* A JSON text, held as its syntax tree: "string", "number" (num is the
\* literal in tenths), "array", "object" and "null".
JSON(kind, x) ==
    [json |-> kind,
     str |-> IF kind = "string" THEN x ELSE "",
     num |-> IF kind = "number" THEN x ELSE 0,
     elems |-> IF kind = "array" THEN x ELSE <<>>,
     members |-> IF kind = "object" THEN x ELSE EmptyMap]

\* json.Unmarshal into an any: a string, a float64 for every number, a
\* []any for every array, a map[string]any for every object, nil for null.
RECURSIVE UnmarshalAny(_)
UnmarshalAny(j) ==
    CASE j.json = "string" -> Go("string", j.str)
      [] j.json = "number" -> Go("float", j.num \div 5)
      [] j.json = "array" ->
             Go("array", [i \in 1..Len(j.elems) |-> UnmarshalAny(j.elems[i])])
      [] j.json = "object" ->
             Go("object", [k \in DOMAIN j.members |-> UnmarshalAny(j.members[k])])
      [] OTHER -> Go("nil", 0)

\* The Host that discover builds for a hostname from the document it fetched
\* from discoURL: null leaves the services map nil.
DiscoveredHost(hn, discoURL, manifest) ==
    [discoURL |-> discoURL, hostname |-> ForDisplay(hn),
     nilServices |-> manifest.json = "null",
     services |-> UnmarshalAny(manifest).members]

\* The Host that ForceHostServices builds from the services of its caller,
\* with the well-known URL of the hostname.
ForcedServicesHost(hn, services) ==
    [discoURL |-> URLString("https", "", hn, TRUE, <<".well-known", "terraform.json">>, ""),
     hostname |-> ForDisplay(hn), nilServices |-> FALSE, services |-> services]

\* ---------------------------------------------------------- queried values
\* The service identifiers asked for: s.v1, s.v2, o.v1, x.v12 and four that
\* parseServiceID rejects.
QueryIds == {<<"s", ".", "v", "1">>, <<"s", ".", "v", "2">>, <<"o", ".", "v", "1">>,
             <<"x", ".", "v", "1", "2">>, <<"s">>, <<"s", ".", "1">>, <<"s", ".", "v">>,
             <<"s", ".", "v", "x">>}

\* The URL strings of the documents: absolute ones, references, and one that
\* url.Parse rejects.
URLStrings ==
    {"https://svc.example/api/v1", "http://svc.example/api", "https://svc.example",
     "https://svc.example/api#frag", "https://user:pw@svc.example/api",
     "ftp://svc.example/api",
     "token", "api/v1#frag", "/api", "//other.example/api", "//user@other.example/api",
     "#frag", "https://svc.example/%zz"}

\* The arrays of a ports property.  The numbers, in tenths, are below, at and
\* above the two limits, fractional, negative, and one that is 1024 modulo
\* 65536.
MaxPortsLen == 3
PortArrays ==
    UNION {[1..n -> {JSON("number", t) :
                        t \in {-10, 10230, 10240, 80805, 655350, 655360, 665600}}] :
              n \in 0..MaxPortsLen}
        \cup {<<JSON("number", 10240), JSON("string", "65535")>>,
              <<JSON("null", 0), JSON("number", 10240)>>}

\* A map with one more key, and with one key less.
With(members, key, value) ==
    [k \in DOMAIN members \cup {key} |-> IF k = key THEN value ELSE members[k]]
Without(members, key) == [k \in DOMAIN members \ {key} |-> members[k]]

\* OAuth descriptors: a complete one, the ones that differ from it in one
\* property, and the ones with grant_types and without an endpoint.
FullDescriptor ==
    [client |-> JSON("string", "id1"),
     authz |-> JSON("string", "https://svc.example/api/v1"),
     token |-> JSON("string", "token")]
JSONDescriptors ==
    LET str(s) == JSON("string", s)
        num(t) == JSON("number", t)
        GrantTypeValues ==
            {JSON("array", <<str("password")>>), JSON("array", <<str("authz_code")>>),
             JSON("array", <<str("password"), num(70), str("authz_code")>>),
             JSON("array", <<num(70)>>), JSON("array", <<>>), str("password"),
             JSON("array", <<str("device_code")>>)}
        ScopesValues ==
            {JSON("array", <<>>), JSON("array", <<str("x"), str("y")>>),
             JSON("array", <<str("y"), str("x")>>), JSON("array", <<str("x"), num(10)>>),
             JSON("array", <<JSON("null", 0)>>), str("x"), JSON("null", 0)}
    IN {FullDescriptor}
        \cup {Without(FullDescriptor, k) : k \in DOMAIN FullDescriptor}
        \cup {With(FullDescriptor, "client", num(10))}
        \cup {With(FullDescriptor, k, str(u)) : k \in {"authz", "token"}, u \in URLStrings}
        \cup {With(FullDescriptor, "ports", str("1024-65535"))}
        \cup {With(FullDescriptor, "ports", JSON("array", <<num(10240), num(80800)>>))}
        \cup {With(FullDescriptor, "scopes", s) : s \in ScopesValues}
        \cup {With(d, "grant_types", g) :
                d \in {FullDescriptor}
                        \cup {Without(FullDescriptor, k) : k \in {"authz", "token"}}
                        \cup {Without(Without(FullDescriptor, "authz"), "token")},
                g \in GrantTypeValues}

\* The documents: null, the empty object, one service with a URL string, with
\* a value of another type, and with a descriptor, bare or in an array; the
\* descriptors with a ports array are declared bare.
Manifests ==
    LET Only(id, value) == JSON("object", With(EmptyMap, id, value))
        SV1 == <<"s", ".", "v", "1">>
        OV1 == <<"o", ".", "v", "1">>
        Full == JSON("object", FullDescriptor)
    IN {JSON("null", 0), JSON("object", EmptyMap)}
        \cup {Only(id, JSON("string", u)) : id \in {SV1, <<"s", ".", "v", "2">>},
                                            u \in URLStrings}
        \cup {Only(SV1, v) :
                v \in {JSON("number", 10), JSON("null", 0),
                       JSON("array", <<JSON("string", "https://svc.example/api/v1")>>),
                       Full}}
        \cup {Only(OV1, JSON("object", d)) : d \in JSONDescriptors}
        \cup {Only(OV1, JSON("array", <<JSON("object", d)>>)) : d \in JSONDescriptors}
        \cup {Only(OV1, JSON("array", <<>>)),
              Only(OV1, JSON("array", <<Full, JSON("object", EmptyMap)>>))}
        \cup {JSON("object",
                   With(With(EmptyMap, <<"s", ".", "v", "2">>,
                             JSON("string", "https://svc.example/api/v1")),
                        OV1, Full))}
PortsManifests ==
    {JSON("object", With(EmptyMap, <<"o", ".", "v", "1">>,
                         JSON("object", With(FullDescriptor, "ports", JSON("array", a))))) :
        a \in PortArrays}

\* What a caller of ForceHostServices decodes from HCL: a whole number is an
\* int, and an object may arrive as a []map[string]any, here with one, two
\* or no elements.
HCLServices ==
    LET WholeAsInt(value) ==
            IF value.type = "float" /\ value.num % 2 = 0
            THEN Go("int", value.num \div 2) ELSE value
        AsInt(value) ==
            IF IsType(value.members, "ports", "array")
            THEN Go("object",
                    With(value.members, "ports",
                         Go("array", [i \in 1..Len(value.members["ports"].elems) |->
                                         WholeAsInt(value.members["ports"].elems[i])])))
            ELSE value
        Only(id, value) == With(EmptyMap, id, value)
        OV1 == <<"o", ".", "v", "1">>
        Decoded == {AsInt(UnmarshalAny(m).members[OV1]) : m \in PortsManifests}
                     \cup {AsInt(UnmarshalAny(JSON("object", d))) : d \in JSONDescriptors}
    IN {Only(OV1, v) : v \in Decoded}
        \cup {Only(OV1, Go("maps", <<v>>)) :
                v \in {UnmarshalAny(JSON("object", d)) : d \in JSONDescriptors}}
        \cup {Only(OV1, Go("maps", <<UnmarshalAny(JSON("object", FullDescriptor)),
                                     Go("object", EmptyMap)>>)),
              Only(OV1, Go("maps", <<>>)), EmptyMap,
              Only(<<"s", ".", "v", "1">>, Go("string", "https://svc.example/api/v1")),
              Only(<<"s", ".", "v", "1">>, Go("string", "token"))}

\* The Hosts queried: a nil one, the ones discovered for hostname a at its
\* well-known URL or, after a redirect, at another URL, and the forced ones.
RedirectedURL == URLString("http", "", "c.example", TRUE, <<"disco", "doc.json">>, "")
TestHosts ==
    LET WellKnown == ForcedServicesHost("a", EmptyMap).discoURL
    IN {NilHost}
        \cup {DiscoveredHost("a", u, m) : u \in {WellKnown, RedirectedURL}, m \in Manifests}
        \cup {DiscoveredHost("a", WellKnown, m) : m \in PortsManifests}
        \cup {ForcedServicesHost("b", s) : s \in HCLServices}

\* ------------------------------------------------------------ Host queries
\* parseURL resolving a reference in place, in the URL of the Host.
parseURLBase_InPlace(h, urlStr) ==
    IF Parse(urlStr).malformed \/ Parse(urlStr).scheme # "" THEN h.discoURL
    ELSE StripFragment(ResolveReference(h.discoURL, Parse(urlStr)))

\* parseURL: h.discoURL after the call.  url.Parse allocates the URL it
\* returns and ResolveReference returns a new URL too, so u is never the URL
\* of the Host and u.Fragment = "" does not write it.
parseURLBase(h, urlStr) == h.discoURL

\* The Host after a call of ServiceURL or ServiceOAuthClient on it: neither
\* method assigns to a field of h; the parseURL calls they make (for the
\* service URL; for authz and then token once the client is known) get h.
Receiver(h, method, id, build) ==
    LET Parsed(g, m, key) ==
            IF IsType(m, key, "string")
            THEN [g EXCEPT !.discoURL = parseURLBase(g, m[key].str)] ELSE g
        out == ServiceOAuthClient(h, id, build)
        raw == IF h.services[id].type = "object" THEN h.services[id].members
               ELSE h.services[id].elems[1].members
        Early == {"panic", "must be declared with an object value",
                  "invalid grant_types property", "missing required property client"}
    IN IF parseServiceID(id).err # NoErr \/ h = NilHost THEN h
       ELSE IF h.nilServices \/ id \notin DOMAIN h.services THEN h
       ELSE IF method = "ServiceURL" THEN Parsed(h, h.services, id)
       ELSE IF out.err.kind \in Early THEN h
       ELSE IF out.err.kind \in {"failed to parse URL authz",
                                 "missing required property authz"}
       THEN Parsed(h, raw, "authz")
       ELSE Parsed(Parsed(h, raw, "authz"), raw, "token")

\* A call of ServiceURL, and then the same call once more on the same Host:
\* the id asked for, the Host before the first call, and what the first and
\* the latest call returned.
HostServiceURL ==
    \E id \in QueryIds :
        LET out == ServiceURL(theHost, id)
        IN /\ IF query = NoQuery
              THEN query' = [method |-> "ServiceURL", id |-> id, build |-> "",
                             out |-> out, calls |-> 1, before |-> theHost,
                             again |-> out]
              ELSE /\ query.method = "ServiceURL" /\ query.id = id /\ query.calls = 1
                   /\ query' = [query EXCEPT !.calls = 2, !.again = out]
           /\ theHost' = Receiver(theHost, "ServiceURL", id, "")

\* A call of ServiceOAuthClient in a program built for one of the two
\* architectures, and then the same call once more.
HostServiceOAuthClient ==
    \E id \in QueryIds, build \in {"amd64", "arm64"} :
        LET out == ServiceOAuthClient(theHost, id, build)
        IN /\ IF query = NoQuery
              THEN query' = [method |-> "ServiceOAuthClient", id |-> id,
                             build |-> build, out |-> out, calls |-> 1,
                             before |-> theHost, again |-> out]
              ELSE /\ query.method = "ServiceOAuthClient" /\ query.id = id
                   /\ query.build = build /\ query.calls = 1
                   /\ query' = [query EXCEPT !.calls = 2, !.again = out]
           /\ theHost' = Receiver(theHost, "ServiceOAuthClient", id, build)

HostInit ==
    /\ New /\ credsSrc = "nil" /\ NoAuth
    /\ theHost \in TestHosts
    /\ query = NoQuery
HostNext ==
    /\ \/ HostServiceURL
       \/ HostServiceOAuthClient
    /\ UNCHANGED <<disco_all, auth>>
HostSpec == HostInit /\ [][HostNext]_vars

\* ------------------------------------------------------------------ claims
\* A thread is about to return from the named call.
AtReturn(p, name) == pc[p] = "return" /\ op[p].name = name

\* The request the current call of p sent.
Request(p) == requests[myReq[p]]

\* Same base URL, display name and services.
SameHost(x, y) ==
    /\ x # NilHost /\ y # NilHost
    /\ x.discoURL = y.discoURL /\ x.hostname = y.hostname /\ x.services = y.services

\* C1 as stated: in a sequential run, two Discover(h) calls with no Forget,
\* ForgetAll or ForgetAlias between them issue exactly one network request in
\* total, and after Forget(h) the next Discover(h) issues a new request.
\* (Stated for hostnames with no forced entry, where the first call of the
\* pair goes to the network.)
C1_Original ==
    \A p \in Procs : AtReturn(p, "Discover") =>
        LET h == hist[op[p].host] IN
        /\ ((h.last \in {"ok", "err"} /\ h.forced = "") => h.reqs + Sent(p) = 1)
        /\ (h.last = "forgotten" => Sent(p) = 1)

\* C1 as amended: in a sequential run, when a Discover(h) has returned a Host
\* and no Forget(h), ForgetAll, ForgetAlias(h) or ForceHostServices(h) came
\* since, the next Discover(h) issues no network request and returns that same
\* Host; after Forget(h) (or ForgetAll) the next Discover(h) issues a new
\* network request.
C1_CachedUntilForget ==
    \A p \in Procs : AtReturn(p, "Discover") =>
        LET h == hist[op[p].host] IN
        /\ (h.last = "ok" =>
              Sent(p) = 0 /\ ret[p].err = NoErr /\ ret[p].host = h.served)
        /\ (h.last = "forgotten" => Sent(p) = 1)

\* A second Discover(b) returns after a first one fetched b over the network.
C1_Witness ==
    /\ AtReturn("p1", "Discover") /\ op["p1"].host = "b"
    /\ hist["b"].last = "ok" /\ hist["b"].reqs = 1
    /\ Sent("p1") = 0 /\ ret["p1"].host.req = 1

\* C2: in a sequential run, a Discover(h) that returns an error returns no
\* Host and leaves the host cache exactly as it was when the call began, and
\* the next Discover(h) performs a new network request.
C2_NoErrorCached ==
    \A p \in Procs : AtReturn(p, "Discover") =>
        /\ (ret[p].err # NoErr =>
              ret[p].host = NilHost /\ hostCache = atCall[p].cache)
        /\ (hist[op[p].host].last = "err" => Sent(p) = 1)

\* A Discover(b) fails on an undecodable document right after a Discover(b)
\* that failed too, with another host's entry in the cache.
C2_Witness ==
    /\ AtReturn("p1", "Discover") /\ op["p1"].host = "b"
    /\ ret["p1"].err = "failed to decode discovery document"
    /\ hist["b"].last = "err" /\ myReq["p1"] = 2
    /\ DOMAIN hostCache = {"c"}

AliasedNetworkSuccess(p) ==
    /\ AtReturn(p, "Discover")
    /\ op[p].host \in DOMAIN atCall[p].aliases
    /\ atCall[p].aliases[op[p].host] # op[p].host
    /\ Sent(p) = 1 /\ ret[p].err = NoErr

\* C4 as stated: when alias a maps to t, a successful network Discover(a)
\* stores the resulting Host in the cache under key t.
C4_Original ==
    \A p \in Procs : AliasedNetworkSuccess(p) =>
        LET t == atCall[p].aliases[op[p].host]
        IN t \in DOMAIN hostCache /\ hostCache[t] = ret[p].host

\* C4 as amended: when alias a maps to t, a successful network Discover(a)
\* stores the resulting Host in the cache under key a, the hostname it was
\* given, and changes no other entry (in a sequential run the cache afterwards
\* is the cache before the call with a's entry set), so that a later
\* Discover(a) is served from cache and Forget(a) invalidates it.
C4_StoredUnderGivenName ==
    \A p \in Procs : AliasedNetworkSuccess(p) =>
        hostCache = [x \in (DOMAIN atCall[p].cache) \cup {op[p].host} |->
                        IF x = op[p].host THEN ret[p].host ELSE atCall[p].cache[x]]

\* Discover(a), a aliased to b, has fetched b's document: the cache has an
\* entry for a and none for b.
C4_Witness ==
    /\ AliasedNetworkSuccess("p1") /\ op["p1"].host = "a"
    /\ atCall["p1"].aliases["a"] = "b"
    /\ DOMAIN hostCache = {"a"}

C6_CredentialsForHost ==
    \A p \in Procs : AtReturn(p, "CredentialsForHost") =>
        LET h == op[p].host
            t == IF h \in DOMAIN aliases THEN aliases[h] ELSE h
        IN IF credsSrc = "nil"
           THEN ret[p].creds = NoCreds /\ ret[p].err = NoErr
           ELSE /\ ret[p].creds = SourceForHost(credsSrc, t).creds
                /\ ret[p].err = SourceForHost(credsSrc, t).err

\* CredentialsForHost(a), a aliased to b, returns the token registered for b.
C6_Witness ==
    /\ AtReturn("p1", "CredentialsForHost") /\ op["p1"].host = "a"
    /\ "a" \in DOMAIN aliases /\ aliases["a"] = "b"
    /\ credsSrc = "static" /\ ret["p1"].creds = "tok_b"

\* C7: in a sequential run, once ForgetAlias(a) has returned, a has no alias
\* and no cache entry, and the next Discover(a) (no Alias(a, .) or
\* ForceHostServices(a) before it) sends a network request to the literal
\* hostname a and fails when a has no reachable discovery endpoint.
C7_ForgetAlias ==
    /\ (\A p \in Procs : pc[p] = "idle") =>
          \A a \in Hosts : hist[a].last = "unaliased" =>
              a \notin DOMAIN aliases /\ a \notin DOMAIN hostCache
    /\ \A p \in Procs : (AtReturn(p, "Discover") /\ hist[op[p].host].last = "unaliased") =>
          /\ Sent(p) = 1
          /\ Request(p).url = DiscoURL(op[p].host)
          /\ op[p].host \notin Reachable => (ret[p].err # NoErr /\ ret[p].host = NilHost)

\* Discover(a) fails with a transport error right after ForgetAlias(a), while
\* b's entry is still cached.
C7_Witness ==
    /\ AtReturn("p1", "Discover") /\ op["p1"].host = "a"
    /\ hist["a"].last = "unaliased"
    /\ ret["p1"].err = "ErrServiceDiscoveryNetworkRequest"
    /\ "b" \in DOMAIN hostCache

\* C8: alias resolution is a single hop within one call: in a sequential run
\* with a static credentials source, the request of a network Discover(a) goes
\* to the alias target of a (a itself without alias) and carries the
\* credentials the source holds for that same host, and CredentialsForHost(a)
\* returns the credentials of that host.
C8_SingleHop ==
    \A p \in Procs : credsSrc = "static" =>
        LET a == op[p].host
            t == IF a \in DOMAIN aliases THEN aliases[a] ELSE a
        IN /\ (pc[p] = "http" /\ op[p].name = "Discover") =>
                 /\ Request(p).url = DiscoURL(t)
                 /\ Request(p).Authorization = StaticCreds[t]
           /\ AtReturn(p, "CredentialsForHost") => ret[p].creds = StaticCreds[t]

\* C9: in a sequential run, after ForceHostServices(h, services) and until
\* Forget(h), ForgetAll() or ForgetAlias(h), every Discover(h) issues no
\* network request and returns a Host with base URL
\* https://h/.well-known/terraform.json and the forced services.
C9_ForcedUntilForgotten ==
    \A p \in Procs : (AtReturn(p, "Discover") /\ hist[op[p].host].forced # "") =>
        LET h == op[p].host
            s == hist[h].forced
        IN /\ Sent(p) = 0 /\ ret[p].err = NoErr
           /\ ret[p].host.discoURL =
                 [Scheme |-> "https", Host |-> h, Path |-> "/.well-known/terraform.json"]
           /\ ret[p].host.services = (IF s = "nil" THEN "empty" ELSE s)

\* The second Discover(a) after ForceHostServices(a, forcedA) returns.
C9_Witness ==
    /\ AtReturn("p1", "Discover") /\ op["p1"].host = "a"
    /\ hist["a"].forced = "forcedA" /\ hist["a"].last = "ok"
    /\ ret["p1"].host.services = "forcedA"

\* Both threads are about to return from a successful network Discover(h).
BothDiscovered(h) ==
    \A p \in Procs :
        /\ AtReturn(p, "Discover") /\ op[p].host = h
        /\ Sent(p) = 1 /\ ret[p].err = NoErr

\* C10: concurrent Discover(h) calls for an uncached h are not deduplicated;
\* when two of them each sent a request and succeeded, each returns the Host
\* built from its own request and the cache holds for h the Host of the call
\* whose cache write came last.
C10_LastWriteWins ==
    \A h \in Hosts : BothDiscovered(h) =>
        /\ \A p \in Procs : ret[p].host.req = myReq[p]
        /\ writer[h] \in Procs
        /\ h \in DOMAIN hostCache /\ hostCache[h] = ret[writer[h]].host

\* Both threads fetched b; p2 sent the later request but p1 wrote last.
C10_Witness ==
    /\ BothDiscovered("b")
    /\ myReq["p1"] = 1 /\ myReq["p2"] = 2
    /\ writer["b"] = "p1" /\ hostCache["b"].req = 1

\* A thread waits at a suspension point: inside the call into the
\* caller-supplied credentials source, or in the HTTP exchange of client.Do.
Suspended(p) == pc[p] \in {"ForHost", "http"}

\* C11: in every reachable state in which a Disco operation waits on the HTTP
\* exchange or on a call into the credentials source, no thread holds d.mu.
C11_NoLockAtSuspension ==
    \A p \in Procs : Suspended(p) => mu = "free"

\* The trace events the current Discover call of p has emitted: neither
\* Discover nor discover calls discoTraceFromContext or any of the
\* discoveryStart, discoverySuccess, discoveryFailure, discoveryHostCached
\* helpers, so no callback of a DiscoTrace in the context ever runs.
DiscoverTraceEvents(p) == <<>>

\* C12: a Discover call made with a DiscoTrace in its context emits
\* [DiscoveryHostCached] when it is served from the cache, and DiscoveryStart
\* followed by DiscoverySuccess (on success) or DiscoveryFailure (on error)
\* when it makes a discovery request.
C12_TraceSequences ==
    \A p \in Procs : AtReturn(p, "Discover") =>
        DiscoverTraceEvents(p) =
            IF Sent(p) = 0 /\ ret[p].err = NoErr THEN <<"DiscoveryHostCached">>
            ELSE IF ret[p].err = NoErr THEN <<"DiscoveryStart", "DiscoverySuccess">>
            ELSE <<"DiscoveryStart", "DiscoveryFailure">>

\* A Discover call that received an HTTP response is about to return.
GotResponse(p) ==
    /\ AtReturn(p, "Discover")
    /\ resp[p] # NoResp /\ ~resp[p].transportErr

\* The call of p returns an error and no Host, and left no cache entry.
Rejected(p) ==
    /\ ret[p].err # NoErr /\ ret[p].host = NilHost
    /\ op[p].host \notin DOMAIN hostCache

\* C13: a 404 yields success with a Host without services, cached like any
\* success; a 200 is decided by the content checks, never by the status; every
\* other status yields an error and no Host.
C13_StatusMapping ==
    \A p \in Procs : GotResponse(p) =>
        CASE resp[p].StatusCode = 404 ->
                 /\ ret[p].err = NoErr /\ ret[p].host # NilHost
                 /\ ret[p].host.services = NilServices
                 /\ op[p].host \in DOMAIN hostCache
                 /\ hostCache[op[p].host] = ret[p].host
          [] resp[p].StatusCode = 200 ->
                 /\ ret[p].err # "failed to request discovery document"
                 /\ (resp[p].ContentType = "application/json"
                       /\ resp[p].ContentLength = 2 /\ resp[p].Body = SmallObject)
                    => (ret[p].err = NoErr /\ ret[p].host.services = "served")
          [] OTHER -> Rejected(p)

\* A 404 was answered to Discover(b): the Host without services is cached.
C13_Witness ==
    /\ GotResponse("p1") /\ resp["p1"].StatusCode = 404 /\ op["p1"].host = "b"
    /\ "b" \in DOMAIN hostCache /\ hostCache["b"].services = NilServices

\* The Content-Type values whose media type is application/json.
JSONContentTypes == {"application/json", "application/json; charset=utf-8"}

\* C14: a 200 response is accepted only if its Content-Type parses to the
\* media type application/json, parameters ignored; with any other media type
\* or an unparsable header Discover returns an error and no Host, even for a
\* valid JSON body.
C14_ContentType ==
    \A p \in Procs : (GotResponse(p) /\ resp[p].StatusCode = 200) =>
        /\ resp[p].ContentType \notin JSONContentTypes => Rejected(p)
        /\ (resp[p].ContentType \in JSONContentTypes
              /\ resp[p].ContentLength = 2 /\ resp[p].Body = SmallObject)
           => (ret[p].err = NoErr /\ ret[p].host.services = "served")

\* A document sent as application/json; charset=utf-8 was accepted.
C14_Witness ==
    /\ GotResponse("p1") /\ resp["p1"].StatusCode = 200
    /\ resp["p1"].ContentType = "application/json; charset=utf-8"
    /\ ret["p1"].err = NoErr /\ ret["p1"].host.services = "served"

\* C15: a 200 response whose declared Content-Length or whose actual body
\* length exceeds maxDiscoDocBytes is rejected, whatever the body holds.
C15_OversizeRejected ==
    \A p \in Procs :
        (/\ GotResponse(p) /\ resp[p].StatusCode = 200
         /\ (resp[p].ContentLength > maxDiscoDocBytes \/ resp[p].Body.Len > maxDiscoDocBytes))
        => Rejected(p)

\* C16: the base URL recorded in a discovered Host is the URL of the final
\* request after redirects, not the URL discover requested.
C16_FinalURL ==
    \A p \in Procs : (GotResponse(p) /\ ret[p].err = NoErr) =>
        ret[p].host.discoURL = resp[p].url

\* The request to b was redirected to c and the Host records c's URL.
C16_Witness ==
    /\ GotResponse("p1") /\ ret["p1"].err = NoErr
    /\ Request("p1").url = DiscoURL("b") /\ resp["p1"].url = DiscoURL("c")
    /\ ret["p1"].host.discoURL = DiscoURL("c")

\* A Discover call that found no cache entry is about to return, and the
\* configured source answers every ForHost with an error.
UncachedWithFailingSource(p) ==
    /\ AtReturn(p, "Discover")
    /\ op[p].host \notin DOMAIN atCall[p].cache
    /\ credsSrc = "failing"

\* C17: when the credentials source returns an error during a network
\* Discover, the request is still sent, without credentials, and Discover
\* returns what the HTTP response alone decides.
C17_AnonymousOnSourceError ==
    \A p \in Procs : UncachedWithFailingSource(p) =>
        /\ Sent(p) = 1 /\ Request(p).Authorization = NoCreds
        /\ resp[p] # NoResp
        /\ ret[p].err # "source error"
        /\ LET r == DiscoverResult(hostname[p], resp[p], myReq[p])
           IN ret[p].host = r.host /\ ret[p].err = r.err

\* With a failing source, Discover(b) sent an anonymous request and succeeded.
C17_Witness ==
    /\ UncachedWithFailingSource("p1") /\ op["p1"].host = "b"
    /\ Request("p1").Authorization = NoCreds
    /\ ret["p1"].err = NoErr /\ ret["p1"].host.services = "served"

\* Source i of the list answers for h: with credentials or with an error.
Answers(c, i, h) ==
    SrcForHost(c[i], h).creds # NoCreds \/ SrcForHost(c[i], h).err # NoErr

\* C18: Credentials.ForHost returns the result of the first source, in list
\* order, whose result is non-absent or an error, and calls exactly the
\* sources up to it; when no source answers (or the list is empty) the result
\* is absent with no error.
C18_FirstAnswer ==
    chainRet.op = "ForHost" =>
        LET h == chainRet.host
            answering == {i \in 1..Len(chain) : Answers(chain, i, h)}
        IN IF answering = {}
           THEN /\ chainRet.creds = NoCreds /\ chainRet.err = NoErr
                /\ chainRet.called = [k \in 1..Len(chain) |-> k]
           ELSE LET first == CHOOSE i \in answering : \A j \in answering : i <= j
                IN /\ chainRet.creds = SrcForHost(chain[first], h).creds
                   /\ chainRet.err = SrcForHost(chain[first], h).err
                   /\ chainRet.called = [k \in 1..first |-> k]

\* ForHost(a) on [empty store, failing source, static source]: the error of
\* the second source is returned and the third is not called.
C18_Witness ==
    /\ chainRet.op = "ForHost" /\ chainRet.host = "a"
    /\ chain = <<EmptyStore, FailingSource, StaticSource>>
    /\ chainRet.err = "source error" /\ chainRet.called = <<1, 2>>

\* C19: StoreForHost and ForgetForHost call only the first element of the
\* list, and only if it is a store; otherwise they fail with "no credentials
\* store is available", call no source and change nothing, also when a later
\* element is a store.
C19_FirstElementOnly ==
    chainRet.op \in {"StoreForHost", "ForgetForHost"} =>
        IF Len(chainRet.before) > 0 /\ IsStore(chainRet.before[1])
        THEN /\ chainRet.called = <<1>>
             /\ \A i \in 2..Len(chain) : chain[i] = chainRet.before[i]
        ELSE /\ chainRet.err = "no credentials store is available"
             /\ chainRet.called = <<>>
             /\ chain = chainRet.before

\* StoreForHost on [static source, empty store] fails and leaves the store
\* of the second element empty.
C19_Witness ==
    /\ chainRet.op = "StoreForHost"
    /\ chain = <<StaticSource, EmptyStore>>
    /\ chainRet.err = "no credentials store is available"

\* A ForHost call on the caching source is about to return.
CachingAtReturn(p, name) == ccall[p].pc = "return" /\ ccall[p].name = name

\* C20: in a sequential run on a caching source, once ForHost(h) has
\* succeeded, with credentials or with absent, every later ForHost(h) returns
\* that same result without calling the wrapped source, until StoreForHost(h)
\* or ForgetForHost(h) is called.
C20_ServedFromMemo ==
    \A p \in Procs :
        (CachingAtReturn(p, "ForHost") /\ served[ccall[p].host] # NoServed) =>
            /\ ccall[p].creds = served[ccall[p].host].creds
            /\ ccall[p].err = NoErr
            /\ ccall[p].queried = 0

\* ForHost(b) was answered absent, the wrapped store then received
\* credentials for b, and a later ForHost(b) is served the cached absent.
C20_Witness ==
    /\ CachingAtReturn("p1", "ForHost") /\ ccall["p1"].host = "b"
    /\ served["b"] = [creds |-> NoCreds]
    /\ "b" \in DOMAIN source.creds
    /\ ccall["p1"].creds = NoCreds /\ ccall["p1"].queried = 0

\* C21: a caching source never caches an error: when the wrapped ForHost(h)
\* returns an error, that error is returned and the cache is as it was when
\* the call was entered, and the next ForHost(h) queries the wrapped source
\* again.
C21_ErrorNotCached ==
    \A p \in Procs : CachingAtReturn(p, "ForHost") =>
        /\ ccall[p].err # NoErr =>
               /\ ccall[p].queried = 1 /\ ccall[p].err = "source error"
               /\ memo = ccall[p].before
               /\ ccall[p].host \notin DOMAIN memo
        /\ (lastCall[ccall[p].host].name = "ForHost"
              /\ lastCall[ccall[p].host].err # NoErr) => ccall[p].queried = 1

\* ForHost(a) failed, the wrapped source recovered, and the next ForHost(a)
\* queried it and returns its credentials.
C21_Witness ==
    /\ CachingAtReturn("p1", "ForHost") /\ ccall["p1"].host = "a"
    /\ lastCall["a"] = [name |-> "ForHost", err |-> "source error"]
    /\ ccall["p1"].queried = 1 /\ ccall["p1"].creds = "tok_static"

\* C22: StoreForHost(h) and ForgetForHost(h) remove h's cache entry before
\* delegating and on every path, also when the wrapped source is not a store
\* and when the delegated call fails; in a sequential run the next ForHost(h)
\* queries the wrapped source.
C22_EvictedOnEveryPath ==
    \A p \in Procs :
        /\ (ccall[p].name \in {"StoreForHost", "ForgetForHost"}
              /\ ccall[p].pc \in {"delegate", "return"})
           => ccall[p].host \notin DOMAIN memo
        /\ (CachingAtReturn(p, "ForHost")
              /\ lastCall[ccall[p].host].name \in {"StoreForHost", "ForgetForHost"})
           => ccall[p].queried = 1

\* A StoreForHost(a) on a wrapped source that is not a store failed; the
\* ForHost(a) after it queried the wrapped source.
C22_Witness ==
    /\ CachingAtReturn("p1", "ForHost") /\ ccall["p1"].host = "a"
    /\ lastCall["a"] = [name |-> "StoreForHost", err |-> "no credentials store is available"]
    /\ ccall["p1"].queried = 1 /\ ccall["p1"].creds = "tok_static"

\* ------------------------------------------------------- disco.Host claims
\* The call made with a well-formed id, its outcome, the Host's value for the
\* id asked for and the descriptor that value holds.
Asked(method) == query.method = method /\ parseServiceID(query.id).err = NoErr
Failed(kind) == query.out.err.kind = kind
Succeeded == query.out.err = OtherError(NoErr)
HasServices == theHost # NilHost /\ ~theHost.nilServices
Present == HasServices /\ query.id \in DOMAIN theHost.services
Declared == theHost.services[query.id]
DeclaredDescriptor ==
    IF Declared.type = "object" THEN Declared.members ELSE Declared.elems[1].members
AskedDescriptor ==
    /\ Asked("ServiceOAuthClient") /\ Present
    /\ Declared.type = "object" \/ (Declared.type = "maps" /\ Declared.elems # <<>>)

\* C23: for a well-formed id and a Host with services, ServiceURL and
\* ServiceOAuthClient return version-not-supported, carrying the version
\* asked for, exactly when the exact id is absent and another version of the
\* service is present, and service-not-provided exactly when no version of
\* the service is present; a Host without services always yields
\* service-not-provided.
C23_LookupErrors ==
    LET SameService(k) == HasPrefix(k, parseServiceID(query.id).name \o <<".">>)
    IN (Asked("ServiceURL") \/ Asked("ServiceOAuthClient")) =>
          IF HasServices
          THEN /\ Failed("ErrVersionNotSupported")
                    <=> /\ ~Present
                        /\ \E k \in DOMAIN theHost.services : k # query.id /\ SameService(k)
               /\ Failed("ErrVersionNotSupported")
                    => query.out.err.version = parseServiceID(query.id).version
               /\ Failed("ErrServiceNotProvided")
                    <=> ~\E k \in DOMAIN theHost.services : SameService(k)
          ELSE Failed("ErrServiceNotProvided")

\* C24: ServiceURL(id) on a Host where the exact id is present with a value
\* that is not a string fails with an error that is neither
\* version-not-supported nor service-not-provided.
C24_TypeMismatch ==
    (Asked("ServiceURL") /\ Present /\ Declared.type # "string") =>
        /\ ~Succeeded
        /\ ~Failed("ErrVersionNotSupported")
        /\ ~Failed("ErrServiceNotProvided")

\* A string of the document that url.Parse accepts and that, resolved at
\* this Host, has another scheme than http and https or carries user-info;
\* and a URL that may be returned.
Unsafe(str) ==
    LET u == IF Parse(str).scheme = ""
             THEN ResolveReference(theHost.discoURL, Parse(str))
             ELSE Parse(str)
    IN ~Parse(str).malformed /\ (u.scheme \notin {"http", "https"} \/ u.user # "")
SafeURL(u) ==
    /\ u # NoURL
    /\ u.scheme \in {"http", "https"} /\ u.host # ""
    /\ u.user = "" /\ u.fragment = ""

\* C25: every URL that ServiceURL returns, and every AuthorizationURL and
\* TokenURL of an OAuthClient that ServiceOAuthClient returns, is absolute,
\* has the scheme http or https, no user-info and no fragment; a value of the
\* document that resolves to another scheme or carries user-info yields an
\* error and no URL.
C25_SafeURLs ==
    /\ (Asked("ServiceURL") /\ Succeeded) => SafeURL(query.out.url)
    /\ (Asked("ServiceURL") /\ Present /\ Declared.type = "string"
          /\ Unsafe(Declared.str))
       => (~Succeeded /\ query.out.url = NoURL)
    /\ (Asked("ServiceOAuthClient") /\ Succeeded) =>
          /\ query.out.client.AuthorizationURL # NoURL
               => SafeURL(query.out.client.AuthorizationURL)
          /\ query.out.client.TokenURL # NoURL => SafeURL(query.out.client.TokenURL)
    /\ (AskedDescriptor
          /\ \E k \in {"authz", "token"} :
                /\ IsType(DeclaredDescriptor, k, "string")
                /\ Unsafe(DeclaredDescriptor[k].str))
       => (~Succeeded /\ query.out.client = NoClient)

\* ServiceURL returned a URL for a relative reference with a fragment: the
\* reference resolved against the URL of the document, without the fragment.
C25_Witness ==
    /\ Asked("ServiceURL") /\ Succeeded /\ Present
    /\ Declared.str = "api/v1#frag"
    /\ theHost.discoURL = RedirectedURL
    /\ query.out.url = URLString("http", "", "c.example", TRUE, <<"disco", "api", "v1">>, "")

\* The document maps the id to an absolute URL string.
DeclaredAbsolute ==
    /\ Asked("ServiceURL") /\ Present
    /\ Declared.type = "string"
    /\ ~Parse(Declared.str).malformed /\ Parse(Declared.str).scheme # ""

\* C26 as stated: for a Host whose document maps the id to an absolute URL
\* string, ServiceURL returns exactly that URL, unchanged.
C26_Original ==
    DeclaredAbsolute => (Succeeded /\ query.out.url = Parse(Declared.str))

\* C26: for a Host whose document maps the id to an absolute http or https
\* URL string without user-info, ServiceURL returns that URL with its
\* fragment removed and otherwise unchanged, whatever the Host's base URL.
C26_AbsoluteKept ==
    (DeclaredAbsolute /\ Parse(Declared.str).scheme \in {"http", "https"}
        /\ Parse(Declared.str).user = "")
    => /\ Succeeded
       /\ query.out.url = [Parse(Declared.str) EXCEPT !.fragment = ""]

\* A Host discovered after a redirect returned an absolute URL of its
\* document without the fragment the document gave it.
C26_Witness ==
    /\ DeclaredAbsolute /\ Succeeded
    /\ theHost.discoURL = RedirectedURL
    /\ Declared.str = "https://svc.example/api#frag"
    /\ query.out.url = URLString("https", "", "svc.example", TRUE, <<"api">>, "")

\* A descriptor with a client, grant_types that are absent or an array, and
\* an authz and a token (each of the given keys that is present, and each of
\* the two when all is TRUE) that are URLs a Host may return.
GoodURLs(keys, all) ==
    \A k \in keys :
        IF k \in DOMAIN DeclaredDescriptor
        THEN /\ DeclaredDescriptor[k].type = "string"
             /\ ~Parse(DeclaredDescriptor[k].str).malformed
             /\ ~Unsafe(DeclaredDescriptor[k].str)
        ELSE ~all
Complete ==
    /\ AskedDescriptor /\ IsType(DeclaredDescriptor, "client", "string")
    /\ GoodURLs({"authz", "token"}, TRUE)
    /\ ("grant_types" \in DOMAIN DeclaredDescriptor
          => DeclaredDescriptor["grant_types"].type = "array")

\* A complete descriptor with two ports, and a port that is a whole number
\* within the limits.
TwoPorts ==
    /\ Complete
    /\ IsType(DeclaredDescriptor, "ports", "array")
    /\ Len(DeclaredDescriptor["ports"].elems) = 2
WholePort(elem) ==
    \/ elem.type = "int" /\ elem.num >= 1024 /\ elem.num <= 65535
    \/ elem.type = "float" /\ elem.num % 2 = 0
          /\ elem.num >= 2 * 1024 /\ elem.num <= 2 * 65535

\* C27: every OAuthClient that ServiceOAuthClient returns has
\* 1024 <= MinPort <= MaxPort <= 65535, whatever the numbers of ports are
\* (ints and floats; fractional, negative, below 1024, above 65535); an
\* element that is not a whole number in [1024, 65535] yields the combined
\* ports error, and a minimum above the maximum yields the ordering error.
C27_PortRange ==
    LET ports == DeclaredDescriptor["ports"].elems
        PortOf(elem) == IF elem.type = "float" THEN elem.num \div 2 ELSE elem.num
    IN /\ (Asked("ServiceOAuthClient") /\ Succeeded) =>
             /\ 1024 <= query.out.client.MinPort
             /\ query.out.client.MinPort <= query.out.client.MaxPort
             /\ query.out.client.MaxPort <= 65535
       /\ (TwoPorts /\ (~WholePort(ports[1]) \/ ~WholePort(ports[2])))
          => Failed("both ports must be whole numbers between 1024 and 65535")
       /\ (TwoPorts /\ WholePort(ports[1]) /\ WholePort(ports[2])
             /\ PortOf(ports[1]) > PortOf(ports[2]))
          => Failed("minimum port cannot be greater than maximum port")
       /\ (TwoPorts /\ WholePort(ports[1]) /\ WholePort(ports[2])
             /\ PortOf(ports[1]) <= PortOf(ports[2]))
          => /\ Succeeded
             /\ query.out.client.MinPort = PortOf(ports[1])
             /\ query.out.client.MaxPort = PortOf(ports[2])

\* On amd64, ports [1024, 66560.0] of a discovered document, whose second
\* number converts to the uint16 1024, got the combined ports error.
C27_Witness ==
    /\ TwoPorts /\ query.build = "amd64"
    /\ DeclaredDescriptor["ports"].elems = <<Go("float", 2 * 1024), Go("float", 2 * 66560)>>
    /\ Failed("both ports must be whole numbers between 1024 and 65535")

\* A descriptor with a client whose grant_types hold the string password
\* alone.
PasswordOnly ==
    /\ AskedDescriptor /\ IsType(DeclaredDescriptor, "client", "string")
    /\ IsType(DeclaredDescriptor, "grant_types", "array")
    /\ LET gts == DeclaredDescriptor["grant_types"].elems
       IN /\ \E i \in 1..Len(gts) : gts[i].type = "string"
          /\ \A i \in 1..Len(gts) : gts[i].type = "string" => gts[i].str = "password"

\* C28: without ports, MinPort is 1024 and MaxPort is 65535; without
\* grant_types the only grant is authz_code and both authz and token are
\* required, a missing one being an error that names it; with the grant
\* password alone a descriptor without authz is accepted and token is still
\* required.
C28_Defaults ==
    LET raw == DeclaredDescriptor
        NoGrantTypes ==
            /\ AskedDescriptor /\ IsType(raw, "client", "string")
            /\ "grant_types" \notin DOMAIN raw
    IN /\ (AskedDescriptor /\ Succeeded /\ "ports" \notin DOMAIN raw)
          => (query.out.client.MinPort = 1024 /\ query.out.client.MaxPort = 65535)
       /\ (NoGrantTypes /\ Succeeded)
          => /\ query.out.client.SupportedGrantTypes = {"authz_code"}
             /\ query.out.client.AuthorizationURL # NoURL
             /\ query.out.client.TokenURL # NoURL
       /\ (NoGrantTypes /\ "authz" \notin DOMAIN raw)
          => Failed("missing required property authz")
       /\ (NoGrantTypes /\ GoodURLs({"authz"}, TRUE) /\ "token" \notin DOMAIN raw)
          => Failed("missing required property token")
       /\ (PasswordOnly /\ "authz" \notin DOMAIN raw /\ GoodURLs({"token"}, TRUE)
             /\ DOMAIN raw \cap {"ports", "scopes"} = {})
          => (Succeeded /\ query.out.client.AuthorizationURL = NoURL)
       /\ (PasswordOnly /\ GoodURLs({"authz"}, FALSE) /\ "token" \notin DOMAIN raw)
          => Failed("missing required property token")

\* A descriptor with the grant password alone and no authz gave a client
\* with a token URL, no authorization URL and the default ports.
C28_Witness ==
    /\ PasswordOnly /\ Succeeded
    /\ "authz" \notin DOMAIN DeclaredDescriptor
    /\ query.out.client.AuthorizationURL = NoURL
    /\ query.out.client.TokenURL # NoURL
    /\ query.out.client.MinPort = 1024 /\ query.out.client.MaxPort = 65535

\* The Host with the value of the id asked for replaced.
Redeclared(value) ==
    [theHost EXCEPT !.services =
        [k \in DOMAIN theHost.services |->
            IF k = query.id THEN value ELSE theHost.services[k]]]

\* C29: when the value of the id, as decoded from the JSON document, is a
\* one-element array holding the descriptor object, ServiceOAuthClient
\* returns what it returns for the bare object.
C29_LegacyArray ==
    (Asked("ServiceOAuthClient") /\ Present
        /\ Declared.type = "array" /\ Len(Declared.elems) = 1
        /\ Declared.elems[1].type = "object")
    => query.out = ServiceOAuthClient(Redeclared(Declared.elems[1]), query.id, query.build)

\* C30: an array of strings as scopes is returned in its order; an array
\* with an element that is not a string yields an error; an empty array
\* yields absent Scopes, as a descriptor without scopes does, never an empty
\* list that is present.
C30_Scopes ==
    LET raw == DeclaredDescriptor
        scopes == raw["scopes"].elems
        HasScopes == AskedDescriptor /\ IsType(raw, "scopes", "array")
    IN /\ (HasScopes /\ Succeeded) =>
             /\ \A i \in 1..Len(scopes) : scopes[i].type = "string"
             /\ query.out.client.Scopes.list = [i \in 1..Len(scopes) |-> scopes[i].str]
             /\ query.out.client.Scopes.nil <=> scopes = <<>>
       /\ (HasScopes /\ Complete /\ "ports" \notin DOMAIN raw) =>
             IF \E i \in 1..Len(scopes) : scopes[i].type # "string"
             THEN Failed("all scopes must be strings")
             ELSE Succeeded
       /\ (HasScopes /\ scopes = <<>>) =>
             query.out = ServiceOAuthClient(
                             Redeclared(Go("object", [k \in DOMAIN raw \ {"scopes"} |-> raw[k]])),
                             query.id, query.build)
       /\ (AskedDescriptor /\ Succeeded /\ "scopes" \notin DOMAIN raw)
          => query.out.client.Scopes = [nil |-> TRUE, list |-> <<>>]

\* The scopes [] of a complete descriptor came back absent.
C30_Witness ==
    /\ Complete /\ Succeeded
    /\ IsType(DeclaredDescriptor, "scopes", "array")
    /\ DeclaredDescriptor["scopes"].elems = <<>>
    /\ query.out.client.Scopes = [nil |-> TRUE, list |-> <<>>]

\* ------------------------------------------------- engine state and d.mu
\* C31: the alias table and the host cache are the only mutable state
\* concurrent operations share, and no operation touches engine state outside
\* the mutex: every step that changes a field of the Disco (aliases,
\* hostCache, credsSrc) is taken while no other thread holds d.mu.
C31_StateUnderMutex ==
    [][<<aliases, hostCache, credsSrc>>' # <<aliases, hostCache, credsSrc>>
          => mu = "free"]_vars

C40_NeverAborts ==
    query.method = "ServiceOAuthClient" =>
        /\ ~Failed("panic")
        /\ (query.out.client = NoClient) <=> ~Succeeded

\* ------------------------------------------------------------- redirects
\* C33: with the default HTTP client a discovery request follows at most 3
\* redirects: a Discover whose request was answered with a chain of k
\* redirects ending in a valid response (every chain of the servers here
\* ends in one) returns the Host of the final URL when 1 <= k <= 3 and an
\* error when k > 3.
C33_RedirectLimit ==
    \A p \in Procs : (AtReturn(p, "Discover") /\ resp[p] # NoResp) =>
        /\ resp[p].hops > 3 => (ret[p].err # NoErr /\ ret[p].host = NilHost)
        /\ resp[p].hops \in 1..3 =>
              /\ ~resp[p].transportErr
              /\ ret[p].err = NoErr /\ ret[p].host.discoURL = resp[p].url

\* The request to b was answered with three redirects ending at c's
\* document, and Discover(b) returns the Host recorded at c's URL.
C33_Witness ==
    /\ AtReturn("p1", "Discover") /\ resp["p1"] # NoResp
    /\ resp["p1"].hops = 3 /\ ~resp["p1"].transportErr
    /\ Request("p1").url = DiscoURL("b") /\ resp["p1"].url = DiscoURL("c")
    /\ ret["p1"].err = NoErr /\ ret["p1"].host.services = "served"

\* ------------------------------------------- invalidation and forcing races
\* C34: Forget is not undone by an older request: once a call that forgets
\* h (Forget(h), ForgetAll, ForgetAlias(h)) has returned, the cache never
\* holds for h a Host built from a request that was sent before that call.
C34_ForgetNotUndone ==
    \A h \in Hosts :
        (/\ hist[h].last \in {"forgotten", "unaliased"}
         /\ h \in DOMAIN hostCache /\ hostCache[h].req >= 1)
        => hostCache[h].req > hist[h].reqs

\* C35: once ForgetAlias(a) has returned (and a has not been aliased again),
\* the cache never holds under key a a Host that was discovered at the alias
\* target: an entry for a that came from the network was requested at a.
C35_AliasNotRestored ==
    \A a \in Hosts :
        (/\ hist[a].last = "unaliased"
         /\ a \in DOMAIN hostCache /\ hostCache[a].req >= 1)
        => requests[hostCache[a].req].url = DiscoURL(a)

\* C36: after ForceHostServices(h, s) has returned and until h is forgotten,
\* the cache entry for h is the forced Host, also when a Discover(h) that
\* started before the call completes after it.
C36_ForcedKept ==
    \A h \in Hosts :
        hist[h].last = "forced" =>
            h \in DOMAIN hostCache /\ hostCache[h] = ForcedHost(h, hist[h].forced)

\* ------------------------------------------------ caching source, two threads
\* C37: once a StoreForHost(h, c) or ForgetForHost(h) on the caching source
\* has returned successfully, as the last call for h, and no call is in
\* flight, the memo entry for h is missing or equal to what the wrapped store
\* now holds for h, whatever ForHost(h) calls ran concurrently.
C37_NoStaleMemo ==
    \A h \in AuthHosts :
        (/\ \A p \in Procs : ccall[p].pc = "idle"
         /\ lastCall[h].name \in {"StoreForHost", "ForgetForHost"}
         /\ lastCall[h].err = NoErr)
        => (Cached(memo, h) => memo[h] = SrcForHost(source, h).creds)

\* ------------------------------------------------------------- no deadlock
\* C38: no Disco operation deadlocks: a thread that returns from an
\* operation does not hold d.mu, and no thread waits for d.mu while its own
\* call chain holds it, also when the configured credentials source calls
\* back into the same Disco from its ForHost.
C38_NoSelfDeadlock ==
    \A p \in Procs :
        /\ pc[p] \in {"idle", "return", "panicked"} => mu # p
        /\ pc[p] = "Lock" => mu # p

\* -------------------------------------------------- frame of invalidation
\* The cache entries, and the aliases, outside the given keys are the same
\* before and after the step.
CacheKept(keys) ==
    \A k \in Hosts \ keys :
        /\ k \in DOMAIN hostCache' <=> k \in DOMAIN hostCache
        /\ k \in DOMAIN hostCache => hostCache'[k] = hostCache[k]
AliasesKept(keys) ==
    \A k \in Hosts \ keys :
        /\ k \in DOMAIN aliases' <=> k \in DOMAIN aliases
        /\ k \in DOMAIN aliases => aliases'[k] = aliases[k]

\* C39: Forget(h) removes at most the cache entry keyed h (nothing when h is
\* not cached); ForgetAll() empties the cache; both leave the alias table
\* unchanged; ForgetAlias(a) leaves every other alias and every cache entry
\* not keyed a unchanged; Alias(a, t) leaves the cache unchanged.
C39_Frame ==
    [][/\ Forget("p1", SeqRun) =>
             /\ aliases' = aliases
             /\ \E h \in Hosts :
                   /\ hist'[h].last = "forgotten"
                   /\ h \notin DOMAIN hostCache' /\ CacheKept({h})
       /\ ForgetAll("p1", SeqRun) =>
             (aliases' = aliases /\ hostCache' = EmptyMap)
       /\ ForgetAlias("p1", SeqRun) =>
             \E a \in Hosts :
                 /\ hist'[a].last = "unaliased"
                 /\ a \notin DOMAIN aliases' /\ AliasesKept({a})
                 /\ a \notin DOMAIN hostCache' /\ CacheKept({a})
       /\ Alias("p1", SeqRun) =>
             (hostCache' = hostCache
                /\ \E a \in Hosts : a \in DOMAIN aliases' /\ AliasesKept({a}))]_vars

\* ForgetAlias(a) has returned as the third call, after a was aliased and an
\* entry for b was put in the cache: the entry for b is still there.
C39_Witness ==
    /\ pc["p1"] = "idle" /\ ncalls = 3
    /\ hist["a"].last = "unaliased" /\ "a" \notin DOMAIN aliases
    /\ hist["b"].last = "forced" /\ "b" \in DOMAIN hostCache
====
